---- MODULE Spec2Model ----
(***************************************************************************)
(* Model of the live ingestion handler of the Telegram logger              *)
(* (src/bot.js, class TelegramLoggerSystem).                                *)
(*                                                                         *)
(* The handler registered by startLogging is an async function.  The       *)
(* client library starts it for every incoming update without waiting for  *)
(* the handler of the previous update to finish, so several handler        *)
(* activations are in flight at once and interleave at every await.  Code  *)
(* between two awaits runs atomically (single JavaScript thread): each     *)
(* action below is one such segment.  The hourly counters of the handler   *)
(* only feed the console summary and are left out.                         *)
(***************************************************************************)
EXTENDS Integers, Sequences, FiniteSets, TLC

(***************************************************************************)
(* Bounds of the model                                                     *)
(***************************************************************************)
MaxEvents == 2          \* number of events delivered in a run
MaxDay == 1             \* the clock runs over the dates 0..MaxDay
MaxFailures == 3        \* number of failing platform calls in a run

(***************************************************************************)
(* Program constants                                                       *)
(***************************************************************************)
HighWaterMark == 1000   \* processedMessages.size > 1000
EvictCount == 500       \* slice(0, 500)
DefaultMaxRetries == 3  \* retryApiCall(apiCall, maxRetries = 3, ...)
DefaultDelay == 1000    \* retryApiCall(..., delay = 1000)
GroupGateThreshold == 100   \* chat.participantsCount > 100
SmartChannelLimit == 1000   \* chat.participantsCount > 1000
SpamEmojiLimit == 5     \* emojiCount > 5
SpamLengthLimit == 20   \* text.length > 20

Undefined == -1         \* an absent participantsCount

(***************************************************************************)
(* The platform: chats, users and texts an event can carry                 *)
(***************************************************************************)
\* A chat entity as the platform returns it from message.getChat().
\* titleSpam: the title contains one of the spamChannelKeywords of smart mode;
\* titleExcluded: the title contains one of EXCLUDED_KEYWORDS;
\* folder: TRUE when folderCache maps the chat to a folder of EXCLUDED_FOLDERS.
ChatDM == [id |-> 1, peer |-> "PeerUser", broadcast |-> FALSE, megagroup |-> FALSE,
           gigagroup |-> FALSE, participantsCount |-> Undefined,
           titleSpam |-> FALSE, titleExcluded |-> FALSE, folder |-> FALSE]
ChatGroup == [id |-> 2, peer |-> "PeerChat", broadcast |-> FALSE, megagroup |-> FALSE,
              gigagroup |-> FALSE, participantsCount |-> 6,
              titleSpam |-> FALSE, titleExcluded |-> FALSE, folder |-> FALSE]
ChatChannel == [id |-> 3, peer |-> "PeerChannel", broadcast |-> TRUE, megagroup |-> FALSE,
                gigagroup |-> FALSE, participantsCount |-> 200,
                titleSpam |-> FALSE, titleExcluded |-> FALSE, folder |-> FALSE]
Chats == {ChatDM, ChatGroup, ChatChannel}

\* The account itself (client.getMe()) and another user.
Me == [id |-> 100, bot |-> FALSE, isChannel |-> FALSE, hasUsername |-> TRUE]
Other == [id |-> 101, bot |-> FALSE, isChannel |-> FALSE, hasUsername |-> TRUE]
Users == {Me, Other}
NoEntity == [id |-> 0]

\* A text is described by what the handler looks at: its length, the number
\* of emoji-range characters and of capital letters, whether it contains a
\* spam keyword, "@<my username>" or my full name, and whether it is made of
\* white space only (blank: text.trim() === '').  kw is a keyword of the
\* list of isSpamMessage of bot.js, kwFilter one of the list of
\* message-filter.js.
NoText == [len |-> 0, emoji |-> 0, caps |-> 0, kw |-> FALSE, atUser |-> FALSE,
           hasName |-> FALSE, blank |-> FALSE, kwFilter |-> FALSE]
PlainText == [len |-> 11, emoji |-> 0, caps |-> 1, kw |-> FALSE, atUser |-> FALSE,
              hasName |-> FALSE, blank |-> FALSE, kwFilter |-> FALSE]
SpamText == [len |-> 11, emoji |-> 6, caps |-> 1, kw |-> FALSE, atUser |-> FALSE,
             hasName |-> FALSE, blank |-> FALSE, kwFilter |-> FALSE]
Texts == {NoText, PlainText, SpamText}

\* An incoming NewMessage event: event.message.
Message(chat, text) ==
    [chat |-> chat, id |-> 1, text |-> text, sender |-> Other, fwdFrom |-> FALSE]
Events == {Message(ChatDM, PlainText), Message(ChatDM, NoText),
           Message(ChatGroup, PlainText), Message(ChatGroup, SpamText),
           Message(ChatChannel, PlainText)}

\* FILTER_MODE / BLOCK_ALL_CHANNELS / the lists read from the environment.
Modes == {"smart", "no_channels"}
Envs == [FILTER_MODE : Modes, BLOCK_ALL_CHANNELS : {FALSE},
         ALLOWED_CHAT_IDS : {{}}, EXCLUDED_FOLDERS : {FALSE}, EXCLUDED_KEYWORDS : {FALSE}]

(***************************************************************************)
(* The wider platform of SpecModes: every filter mode, more kinds of chat, *)
(* sender and text                                                         *)
(***************************************************************************)
\* A supergroup: its messages carry a PeerChannel peer.
ChatSupergroup == [id |-> 4, peer |-> "PeerChannel", broadcast |-> FALSE, megagroup |-> TRUE,
                   gigagroup |-> FALSE, participantsCount |-> 150,
                   titleSpam |-> FALSE, titleExcluded |-> FALSE, folder |-> FALSE]
\* A broadcast channel whose entity carries no participantsCount.
ChatQuietChannel == [id |-> 5, peer |-> "PeerChannel", broadcast |-> TRUE, megagroup |-> FALSE,
                     gigagroup |-> FALSE, participantsCount |-> Undefined,
                     titleSpam |-> FALSE, titleExcluded |-> FALSE, folder |-> FALSE]
\* A broadcast channel with a spam keyword and an excluded keyword in its title.
ChatSpamChannel == [id |-> 6, peer |-> "PeerChannel", broadcast |-> TRUE, megagroup |-> FALSE,
                    gigagroup |-> FALSE, participantsCount |-> Undefined,
                    titleSpam |-> TRUE, titleExcluded |-> TRUE, folder |-> FALSE]
\* A small group that sits in an excluded folder.
ChatFolderGroup == [id |-> 7, peer |-> "PeerChat", broadcast |-> FALSE, megagroup |-> FALSE,
                    gigagroup |-> FALSE, participantsCount |-> 6,
                    titleSpam |-> FALSE, titleExcluded |-> FALSE, folder |-> TRUE]
\* A basic group with exactly 100 members.
ChatGateGroup == [id |-> 8, peer |-> "PeerChat", broadcast |-> FALSE, megagroup |-> FALSE,
                  gigagroup |-> FALSE, participantsCount |-> GroupGateThreshold,
                  titleSpam |-> FALSE, titleExcluded |-> FALSE, folder |-> FALSE]
AllChats == Chats \cup {ChatSupergroup, ChatQuietChannel, ChatSpamChannel, ChatFolderGroup,
                        ChatGateGroup}

\* A bot account.
Bot == [id |-> 102, bot |-> TRUE, isChannel |-> FALSE, hasUsername |-> TRUE]
AllUsers == Users \cup {Bot}

\* A text of white space only, and a text that mentions "@<my username>".
BlankText == [len |-> 3, emoji |-> 0, caps |-> 0, kw |-> FALSE, atUser |-> FALSE,
              hasName |-> FALSE, blank |-> TRUE, kwFilter |-> FALSE]
MentionText == [len |-> 11, emoji |-> 0, caps |-> 1, kw |-> FALSE, atUser |-> TRUE,
                hasName |-> FALSE, blank |-> FALSE, kwFilter |-> FALSE]
AllTexts == Texts \cup {BlankText, MentionText}

\* The events: the sender of a message with a PeerChannel peer is never
\* looked at (getSenderInfo makes one up from the chat).
AllEvents ==
    {[chat |-> c, id |-> 1, text |-> t, sender |-> s, fwdFrom |-> f] :
        <<c, t, s, f>> \in {x \in AllChats \X AllTexts \X AllUsers \X BOOLEAN :
                               x[1].peer = "PeerChannel" => x[3] = Other}}

\* The configurations: a list is set only in the mode that reads it.
AllModes == {"allowlist", "exclude_folders", "exclude_keywords", "super_strict",
             "no_channels", "smart", "dm_only"}
AllEnvs ==
    {e \in [FILTER_MODE : AllModes, BLOCK_ALL_CHANNELS : BOOLEAN,
            ALLOWED_CHAT_IDS : {{}, {1, 5}}, EXCLUDED_FOLDERS : BOOLEAN,
            EXCLUDED_KEYWORDS : BOOLEAN] :
        /\ e.ALLOWED_CHAT_IDS # {} => e.FILTER_MODE = "allowlist"
        /\ e.EXCLUDED_FOLDERS => e.FILTER_MODE = "exclude_folders"
        /\ e.EXCLUDED_KEYWORDS => e.FILTER_MODE = "exclude_keywords"}

VARIABLES
    env,                \* the configuration constants of bot.js:18-25
    client,             \* "none" | "connected" | "failed"
    isRunning,          \* this.isRunning
    registered,         \* the event handler has been added
    me,                 \* this.me (NoEntity when null)
    today,              \* the current UTC date, as a day number
    currentLogFile,     \* this.currentLogFile, as the date in its name
    files,              \* date -> entries of logs/telegram-log-<date>.json
    chatCache,          \* keys of this.chatCache
    senderCache,        \* keys of this.senderCache
    processedMessages,  \* keys of this.processedMessages, in insertion order
    oldKeys,            \* number of earlier keys, all older than the above
    lastProcessTime,    \* this.lastProcessTime is set (non-zero)
    messageCount,       \* closure counters of startLogging
    filteredCount,
    skippedCount,
    h,                  \* the handler activations: position and locals
    delivered,          \* number of events delivered so far
    failures,           \* number of platform calls that failed so far
    exited,             \* process.exit(0) has been called
    torn,               \* dates of the log files whose rewrite the exit cut short
    clock,              \* the clock of the digest run, in hours (UTC)
    zone,               \* the time zone of the machine the digest runs on
    dg,                 \* the digest run: position and locals
    rank,               \* the ranking of the chats in analyzeMessages
    cls,                \* an entity and what the two getChatType make of it
    ft,                 \* the bulk fetch of MessageFetcher: position and locals
    sp                  \* a text and what the two isSpamMessage make of it

vars == <<env, client, isRunning, registered, me, today, currentLogFile, files,
          chatCache, senderCache, processedMessages, oldKeys, lastProcessTime,
          messageCount, filteredCount, skippedCount, h, delivered, failures,
          exited, torn, clock, zone, dg, rank, cls, ft, sp>>

Days == 0..MaxDay
Handlers == 1..MaxEvents


Min(a, b) == IF a < b THEN a ELSE b

(***************************************************************************)
(* Pure helpers of the handler                                             *)
(***************************************************************************)
\* getLogFileName(): the file is named by the current UTC date.
getLogFileName(now) == now

\* if (!message.text) return;
hasTextAlways(message) == TRUE

hasText(message) == message.text.len # 0

\* messageKey = `${message.chatId || ...}_${message.id}`
messageKey(message) == <<message.chat.id, message.id>>

\* shouldSkipMessage(message): early channel filtering.
shouldSkipMessage(message) ==
    IF message.chat.peer = "PeerChannel"
    THEN IF env.FILTER_MODE = "super_strict" \/ env.FILTER_MODE = "no_channels"
         THEN TRUE
         ELSE env.BLOCK_ALL_CHANNELS
    ELSE FALSE

\* isGroupChat / isGroupForSmart
isGroupChat(chat) ==
    chat.megagroup \/ chat.gigagroup \/ chat.participantsCount # Undefined

\* shouldFilterChatSmart(chat, sender)
shouldFilterChatSmart(chat, sender) ==
    IF chat.broadcast /\ chat.participantsCount # Undefined
                      /\ chat.participantsCount # 0
                      /\ chat.participantsCount > SmartChannelLimit
    THEN TRUE
    ELSE IF chat.broadcast /\ chat.titleSpam
    THEN TRUE
    ELSE IF sender.bot /\ isGroupChat(chat)
    THEN TRUE
    ELSE FALSE

\* shouldFilterChat(chatId, chat, sender): TRUE when the chat is filtered out.
shouldFilterChat(chat, sender) ==
    CASE env.FILTER_MODE = "allowlist" ->
            IF env.ALLOWED_CHAT_IDS = {} THEN FALSE
            ELSE chat.id \notin env.ALLOWED_CHAT_IDS
      [] env.FILTER_MODE = "exclude_folders" ->
            IF ~env.EXCLUDED_FOLDERS THEN FALSE
            ELSE chat.folder
      [] env.FILTER_MODE = "exclude_keywords" ->
            IF ~env.EXCLUDED_KEYWORDS /\ ~env.BLOCK_ALL_CHANNELS THEN FALSE
            ELSE IF env.BLOCK_ALL_CHANNELS /\ chat.broadcast THEN TRUE
            ELSE env.EXCLUDED_KEYWORDS /\ chat.titleExcluded
      [] env.FILTER_MODE = "super_strict" -> chat.broadcast
      [] env.FILTER_MODE = "no_channels" -> chat.broadcast
      [] OTHER -> shouldFilterChatSmart(chat, sender)

\* isSpamMessage(text): keyword, more than 5 emoji, or capsRatio > 0.5 with
\* more than 20 characters (capsCount / length > 0.5 iff 2 * capsCount > length).
isSpamMessage(text) ==
    text.kw \/ text.emoji > SpamEmojiLimit
            \/ (2 * text.caps > text.len /\ text.len > SpamLengthLimit)

\* checkMention(text, me)
checkMention(text, self) ==
    IF text.len = 0 THEN FALSE
    ELSE (self.hasUsername /\ text.atUser) \/ text.hasName

\* The mode-specific group gating of the handler: TRUE when the message is
\* dropped by it.
groupGated(message, chat, self) ==
    IF env.FILTER_MODE = "super_strict"
    THEN isGroupChat(chat) /\ ~checkMention(message.text, self)
    ELSE IF env.FILTER_MODE \in {"smart", "exclude_keywords"}
    THEN isGroupChat(chat) /\ chat.participantsCount > GroupGateThreshold
                           /\ ~checkMention(message.text, self)
    ELSE FALSE

\* getSenderInfo: the cache key and the sender it yields.  A message whose
\* peer is a PeerChannel gets a sender synthesized from the chat entity.
senderKey(message) ==
    IF message.chat.peer = "PeerChannel"
    THEN <<"channel", message.chat.id>>
    ELSE <<"user", message.sender.id>>

senderOf(message) ==
    IF message.chat.peer = "PeerChannel"
    THEN [id |-> message.chat.id, bot |-> FALSE, isChannel |-> TRUE, hasUsername |-> TRUE]
    ELSE message.sender

\* messageData of the handler.  arrival is not a field of the entry: it
\* records which delivery the entry was built for.
messageData(message, self, now, arrival) ==
    LET chat == message.chat
        sender == senderOf(message)
    IN [timestamp |-> now,
        messageId |-> message.id,
        chatId |-> chat.id,
        chatType |-> IF sender.isChannel THEN "channel"
                     ELSE IF isGroupChat(chat) THEN "group" ELSE "dm",
        senderId |-> sender.id,
        text |-> message.text,
        isFromMe |-> (sender.id = self.id),
        isMention |-> checkMention(message.text, self),
        filterMode |-> env.FILTER_MODE,
        arrival |-> arrival]

(***************************************************************************)
(* retryApiCall(apiCall, maxRetries = 3, delay = 1000)                     *)
(***************************************************************************)
\* The locals of one call of retryApiCall, with the record of what it did:
\* calls counts the invocations of apiCall, outs their outcomes, sleeps the
\* delays slept, result how the call ended and err the attempt whose error
\* was thrown.
NoRetry == [maxRetries |-> 0, attempt |-> 0, delay |-> 0, calls |-> 0,
            outs |-> <<>>, sleeps |-> <<>>, result |-> "none", err |-> 0]

\* Entering the loop: attempt = 1 and apiCall() is invoked.
retryStart(maxRetries, delay) ==
    [maxRetries |-> maxRetries, attempt |-> 1, delay |-> delay, calls |-> 1,
     outs |-> <<>>, sleeps |-> <<>>, result |-> "pending", err |-> 0]

\* apiCall() resolved: return result.
retryReturn(r, out) ==
    [r EXCEPT !.outs = Append(@, out), !.result = "returned"]

\* apiCall() rejected: throw on the last attempt, else sleep for delay.
retryCatch(r) ==
    IF r.attempt = r.maxRetries
    THEN [r EXCEPT !.outs = Append(@, "fail"), !.result = "thrown", !.err = r.attempt]
    ELSE [r EXCEPT !.outs = Append(@, "fail"), !.sleeps = Append(@, r.delay),
                   !.result = "sleeping"]

\* The sleep is over, with delay *= 2 in place of delay *= 1.5.
retryNextDoubled(r) ==
    [r EXCEPT !.delay = r.delay * 2, !.attempt = r.attempt + 1,
              !.calls = r.calls + 1, !.result = "pending"]

\* The sleep is over: delay *= 1.5, attempt++, apiCall() is invoked again.
\* (1000, 1500 and 2250 are whole numbers, so the division is exact.)
retryNext(r) ==
    [r EXCEPT !.delay = (r.delay * 3) \div 2, !.attempt = r.attempt + 1,
              !.calls = r.calls + 1, !.result = "pending"]


(***************************************************************************)
(* State of one handler activation                                         *)
(***************************************************************************)
NoEvent == [chat |-> ChatDM, id |-> 0, text |-> NoText, sender |-> Other, fwdFrom |-> FALSE]
NoEntry == [timestamp |-> 0, messageId |-> 0, chatId |-> 0, chatType |-> "dm",
            senderId |-> 0, text |-> NoText, isFromMe |-> FALSE, isMention |-> FALSE,
            filterMode |-> "", arrival |-> 0]

\* pc: where the activation is suspended; outcome: how it ended.
Idle == [pc |-> "idle", ev |-> NoEvent, retry |-> NoRetry, entry |-> NoEntry,
         rfile |-> 0, wfile |-> 0, logData |-> <<>>, outcome |-> "none"]

\* The activation is over; the locals of logMessage are gone.
Finish(r, outcome) ==
    [r EXCEPT !.pc = "done", !.outcome = outcome,
              !.rfile = 0, !.wfile = 0, !.logData = <<>>]

\* processedMessages.size
CacheSize == oldKeys + Len(processedMessages)

\* has() of a key that is never equal to a stored one.
InCacheByReference(key) == FALSE

\* processedMessages.has(messageKey)
InCache(key) == \E k \in 1..Len(processedMessages) : processedMessages[k] = key

\* processedMessages.add(key): a Set keeps the place of a key it already has.
AddKey(keys, key) ==
    IF \E k \in 1..Len(keys) : keys[k] = key THEN keys ELSE Append(keys, key)

\* Array.from(processedMessages).slice(0, 500) is deleted: the earlier keys
\* are the oldest, so they go first.
EvictedOld == Min(EvictCount, oldKeys)
EvictedNew == Min(EvictCount - EvictedOld, Len(processedMessages))
NeedsEviction == CacheSize > HighWaterMark

(***************************************************************************)
(* State of a digest run                                                   *)
(***************************************************************************)
\* A time zone: local time is UTC + before up to the instant switch (in
\* hours, UTC) and UTC + after from then on.
UTC == [before |-> 0, after |-> 0, switch |-> 0]

\* A report text, by what it says: kind is "empty" (the canned report of an
\* empty input), "ai" (the text the service returned), "fallback" (the
\* locally computed report) or "error" (an error sentence); mode is the
\* filter mode it cites and stats the numbers it prints.
NoStats == [total |-> 0, direct |-> 0, group |-> 0, channel |-> 0, mentions |-> 0,
            mine |-> 0, chats |-> 0, senders |-> 0]
NoReport == [kind |-> "none", mode |-> "", stats |-> NoStats]

\* prog: "bot" is `node bot.js digest` (generateWeeklyDigest over the log
\* files), "main" is ReportGenerator.generateReport over fetched messages.
\* pc: where the run is suspended.  messages: allMessages / messages.
\* read: the dates whose log file readFile was called for, in order.
\* analysis: the buckets and statistics computed from messages.
\* calls: the number of requests sent to the summarization service.
\* notice: 'No messages found in logs for the past week.' was printed.
\* err: "none", or "caught" when an error ended the run in a catch block.
NoDigest == [prog |-> "none", pc |-> "idle", apiKey |-> FALSE, i |-> 0,
             messages |-> <<>>, read |-> <<>>, analysis |-> <<>>, digest |-> NoReport,
             saved |-> NoReport, calls |-> 0, notice |-> FALSE, err |-> "none"]

\* The ranking of analyzeMessages: chatActivity as Object.entries lists it,
\* the titles in the order the input first had them (seen), the number of
\* messages counted and the topChats computed at the end.
NoRanking == [pc |-> "idle", chatActivity |-> <<>>, seen |-> <<>>, counted |-> 0,
              topChats |-> <<>>]

\* No entity is being classified.  utils and fetcher are the type strings of
\* ChatUtils.getChatType and MessageFetcher.getChatType, info is the whole
\* object ChatUtils.getChatType returns.
NoClassify ==
    [pc |-> "idle",
     entity |-> [className |-> "User", broadcast |-> FALSE, megagroup |-> FALSE,
                 gigagroup |-> FALSE, bot |-> FALSE, participantsCount |-> Undefined],
     utils |-> "", fetcher |-> "",
     info |-> [type |-> "", isChannel |-> FALSE, isGroup |-> FALSE, isBot |-> FALSE,
               isDM |-> FALSE]]

\* The bulk fetch of fetchWeeklyMessages.  dialogs: what getDialogs
\* returned, each dialog with its entity and the messages getMessages returns
\* for it; k: the dialog the loop is at; retry: the retryApiCall of its
\* getMessages; decided: what shouldIncludeDialog said of the dialogs so far;
\* warned: the dialogs whose fetch ended in the catch block.
NoFetch == [pc |-> "idle", dialogs |-> <<>>, k |-> 0, retry |-> NoRetry,
            allMessages |-> <<>>, includedDialogs |-> 0, decided |-> <<>>,
            warned |-> {}]

\* The checks of the two programs on one text and on one chat.  bot and
\* filter are the answers of isSpamMessage of bot.js and of message-filter.js
\* on text: "", "spam" or "clean".  botChat is the answer of shouldFilterChat
\* of bot.js on chat ("", "filter" or "keep"), filterChat the answer of
\* shouldIncludeDialog of message-filter.js ("", "include" or "exclude").
NoSpamCheck ==
    [pc |-> "idle", text |-> NoText, bot |-> "", filter |-> "",
     chat |-> [className |-> "User", bot |-> FALSE, broadcast |-> FALSE,
               megagroup |-> FALSE, gigagroup |-> FALSE, participantsCount |-> Undefined,
               id |-> 1, titleSpam |-> FALSE, spamChat |-> FALSE, titleExcluded |-> FALSE,
               folder |-> FALSE],
     botChat |-> "", filterChat |-> ""]

Init ==
    /\ env \in Envs
    /\ client = "none"
    /\ isRunning = FALSE
    /\ registered = FALSE
    /\ me = NoEntity
    /\ today = 0
    /\ currentLogFile = getLogFileName(0)
    /\ files = [d \in Days |-> <<>>]
    /\ chatCache = {}
    /\ senderCache = {}
    /\ processedMessages = <<>>
    /\ oldKeys = 0
    /\ lastProcessTime = FALSE
    /\ messageCount = 0
    /\ filteredCount = 0
    /\ skippedCount = 0
    /\ h = [i \in Handlers |-> Idle]
    /\ delivered = 0
    /\ failures = 0
    /\ exited = FALSE
    /\ torn = {}
    /\ clock = 0
    /\ zone = UTC
    /\ dg = NoDigest
    /\ rank = NoRanking
    /\ cls = NoClassify
    /\ ft = NoFetch
    /\ sp = NoSpamCheck

reportVars == <<clock, zone, dg, rank, cls, ft, sp>>
sysVars == <<env, client, isRunning, registered, me, exited, torn, reportVars>>
fileVars == <<currentLogFile, files>>
cacheVars == <<chatCache, senderCache, processedMessages, oldKeys>>
countVars == <<messageCount, filteredCount, skippedCount>>
loggerVars == <<env, client, isRunning, registered, me, exited, torn, today, fileVars,
                cacheVars, lastProcessTime, countVars, h, delivered, failures>>

(***************************************************************************)
(* initialize() and startLogging()                                         *)
(***************************************************************************)
\* initialize(): this.me = await retryApiCall(getMe), or the run ends with
\* 'Connection verification failed'.
Initialize ==
    /\ ~exited
    /\ client = "none"
    /\ \E ok \in BOOLEAN :
         IF ok THEN client' = "connected" /\ me' = Me
               ELSE client' = "failed" /\ me' = me
    /\ UNCHANGED <<env, isRunning, registered, today, fileVars, cacheVars,
                   lastProcessTime, countVars, h, delivered, failures, exited, torn,
                   reportVars>>

\* startLogging(): isRunning = true, the counters start at 0 and the handler
\* is registered.
StartLogging ==
    /\ ~exited
    /\ client = "connected"
    /\ ~registered
    /\ isRunning' = TRUE
    /\ registered' = TRUE
    /\ messageCount' = 0
    /\ filteredCount' = 0
    /\ skippedCount' = 0
    /\ UNCHANGED <<env, client, me, today, fileVars, cacheVars,
                   lastProcessTime, h, delivered, failures, exited, torn,
                   reportVars>>

\* The events handled before the observed ones, taken together: Backlog
\* events, each with a key of its own and none of them delivered again, come
\* one after the other from chats other than Chats, get past the lookups
\* (their keys are added) and are dropped as spam (they count as filtered).
\* No eviction happens on the way: the size stays <= HighWaterMark.
Backlog ==
    /\ ~exited
    /\ registered
    /\ delivered = 0
    /\ oldKeys = 0
    /\ oldKeys' = HighWaterMark
    /\ filteredCount' = filteredCount + HighWaterMark
    /\ lastProcessTime' = TRUE
    /\ UNCHANGED <<sysVars, today, fileVars, chatCache, senderCache,
                   processedMessages, messageCount, skippedCount, h,
                   delivered, failures>>

\* Midnight (UTC) passes.
Tick ==
    /\ ~exited
    /\ today < MaxDay
    /\ today' = today + 1
    /\ UNCHANGED <<sysVars, fileVars, cacheVars, lastProcessTime, countVars,
                   h, delivered, failures>>


(***************************************************************************)
(* The event handler of startLogging                                       *)
(***************************************************************************)
\* getChatInfo without the look into the cache.
getChatInfoStartUncached(r) ==
    [r EXCEPT !.pc = "chatCall",
              !.retry = retryStart(DefaultMaxRetries, DefaultDelay)]

\* getChatInfo(message) up to its first suspension: a cache hit returns the
\* cached chat, a miss enters retryApiCall(() => message.getChat()).
\* (Every message of the model has a chat id.)
getChatInfoStart(r) ==
    IF r.ev.chat.id \in chatCache
    THEN [r EXCEPT !.pc = "chatTick"]
    ELSE [r EXCEPT !.pc = "chatCall",
                   !.retry = retryStart(DefaultMaxRetries, DefaultDelay)]

\* getSenderInfo(message) up to its first suspension.  For a PeerChannel
\* message the sender comes from the sender cache or is synthesized from
\* getChatInfo(message), which hits the chat cache filled a moment before.
getSenderInfoStart(r) ==
    IF senderKey(r.ev) \in senderCache
    THEN [r EXCEPT !.pc = "senderTick"]
    ELSE IF r.ev.chat.peer = "PeerChannel"
    THEN [r EXCEPT !.pc = "channelSender"]
    ELSE [r EXCEPT !.pc = "senderCall",
                   !.retry = retryStart(DefaultMaxRetries, DefaultDelay)]

\* getMyInfo() up to its first suspension.
getMyInfoStart(r) ==
    IF me # NoEntity
    THEN [r EXCEPT !.pc = "meTick"]
    ELSE [r EXCEPT !.pc = "meCall",
                   !.retry = retryStart(DefaultMaxRetries, DefaultDelay)]

\* An event arrives and its handler runs to its first suspension:
\* text check, early channel filtering, deduplication, eviction, rate limit.
\* n is the number of events the run delivers.
DeliverUpTo(e, n) ==
    /\ ~exited
    /\ registered
    /\ delivered < n
    /\ LET i == delivered + 1
           r == [Idle EXCEPT !.ev = e]
       IN
       /\ delivered' = i
       /\ IF ~hasText(e)
          THEN /\ h' = [h EXCEPT ![i] = Finish(r, "notext")]
               /\ UNCHANGED <<cacheVars, countVars, lastProcessTime>>
          ELSE IF shouldSkipMessage(e)
          THEN /\ filteredCount' = filteredCount + 1
               /\ h' = [h EXCEPT ![i] = Finish(r, "filtered")]
               /\ UNCHANGED <<cacheVars, messageCount, skippedCount, lastProcessTime>>
          ELSE IF InCache(messageKey(e))
          THEN /\ h' = [h EXCEPT ![i] = Finish(r, "duplicate")]
               /\ UNCHANGED <<cacheVars, countVars, lastProcessTime>>
          ELSE /\ IF NeedsEviction
                  THEN /\ oldKeys' = oldKeys - EvictedOld
                       /\ processedMessages' =
                            SubSeq(processedMessages, EvictedNew + 1, Len(processedMessages))
                  ELSE UNCHANGED <<oldKeys, processedMessages>>
               /\ \/ /\ lastProcessTime        \* less than 100 ms since the last one
                     /\ h' = [h EXCEPT ![i] = [r EXCEPT !.pc = "rate"]]
                     /\ UNCHANGED lastProcessTime
                  \/ /\ lastProcessTime' = TRUE
                     /\ h' = [h EXCEPT ![i] = getChatInfoStart(r)]
               /\ UNCHANGED <<chatCache, senderCache, countVars>>
    /\ UNCHANGED <<sysVars, today, fileVars, failures>>

Deliver(e) == DeliverUpTo(e, MaxEvents)

\* The 100 ms of the rate limit are over.
RateLimitDone(i) ==
    /\ ~exited
    /\ h[i].pc = "rate"
    /\ lastProcessTime' = TRUE
    /\ h' = [h EXCEPT ![i] = getChatInfoStart(h[i])]
    /\ UNCHANGED <<sysVars, today, fileVars, cacheVars, countVars, delivered, failures>>

\* await getChatInfo(message) resumes with the cached chat.
ChatInfoCached(i) ==
    /\ ~exited
    /\ h[i].pc = "chatTick"
    /\ h' = [h EXCEPT ![i] = getSenderInfoStart(h[i])]
    /\ UNCHANGED <<sysVars, today, fileVars, cacheVars, lastProcessTime, countVars,
                   delivered, failures>>


\* The lookup's null is returned from the handler without counting.
LookupFailedUncounted(i, r) ==
    /\ h' = [h EXCEPT ![i] = Finish(r, "skipped")]
    /\ UNCHANGED countVars

\* A lookup of the handler came back with null: the event is skipped.
LookupFailed(i, r) ==
    /\ skippedCount' = skippedCount + 1
    /\ h' = [h EXCEPT ![i] = Finish(r, "skipped")]
    /\ UNCHANGED <<messageCount, filteredCount>>

\* The handler resumes with the sender: the key is added to
\* processedMessages and getMyInfo() is called.
SenderKnown(i, r) ==
    /\ processedMessages' = AddKey(processedMessages, messageKey(r.ev))
    /\ h' = [h EXCEPT ![i] = getMyInfoStart(r)]
    /\ UNCHANGED <<oldKeys, countVars>>

\* A platform call made through retryApiCall comes back: with an entity
\* ("ok"), with nothing ("empty") or with an error ("fail").
ApiCallDone(i, out) ==
    /\ ~exited
    /\ h[i].pc \in {"chatCall", "senderCall", "meCall"}
    /\ h[i].retry.result = "pending"
    /\ IF out = "fail"
       THEN /\ failures < MaxFailures
            /\ failures' = failures + 1
            /\ LET rt == retryCatch(h[i].retry)
                   r == [h[i] EXCEPT !.retry = rt]
               IN IF rt.result = "thrown"
                  THEN LookupFailed(i, r)       \* caught by the lookup: return null
                  ELSE /\ h' = [h EXCEPT ![i] = r]
                       /\ UNCHANGED countVars
            /\ UNCHANGED <<cacheVars, me>>
       ELSE /\ UNCHANGED failures
            /\ LET r == [h[i] EXCEPT !.retry = retryReturn(h[i].retry, out)]
               IN IF out = "empty"
                  THEN LookupFailed(i, r) /\ UNCHANGED <<cacheVars, me>>
                  ELSE CASE h[i].pc = "chatCall" ->
                              /\ chatCache' = chatCache \cup {r.ev.chat.id}
                              /\ h' = [h EXCEPT ![i] = getSenderInfoStart(r)]
                              /\ UNCHANGED <<senderCache, processedMessages, oldKeys,
                                             countVars, me>>
                         [] h[i].pc = "senderCall" ->
                              /\ senderCache' = senderCache \cup {senderKey(r.ev)}
                              /\ SenderKnown(i, r)
                              /\ UNCHANGED <<chatCache, me>>
                         [] h[i].pc = "meCall" ->
                              /\ me' = Me
                              /\ h' = [h EXCEPT ![i] = [r EXCEPT !.pc = "meTick"]]
                              /\ UNCHANGED <<cacheVars, countVars>>
    /\ UNCHANGED <<env, client, isRunning, registered, today, fileVars,
                   lastProcessTime, delivered, exited, torn,
                   reportVars>>

\* The sleep between two attempts of retryApiCall is over.
RetrySleepDone(i) ==
    /\ ~exited
    /\ h[i].pc \in {"chatCall", "senderCall", "meCall"}
    /\ h[i].retry.result = "sleeping"
    /\ h' = [h EXCEPT ![i].retry = retryNext(h[i].retry)]
    /\ UNCHANGED <<sysVars, today, fileVars, cacheVars, lastProcessTime, countVars,
                   delivered, failures>>

\* getSenderInfo of a PeerChannel message: the synthetic sender is cached
\* under `channel_<id>` and the handler resumes with it.
ChannelSenderDone(i) ==
    /\ ~exited
    /\ h[i].pc = "channelSender"
    /\ senderCache' = senderCache \cup {senderKey(h[i].ev)}
    /\ SenderKnown(i, h[i])
    /\ UNCHANGED <<sysVars, today, fileVars, chatCache, lastProcessTime,
                   delivered, failures>>

\* await getSenderInfo(message) resumes with the cached sender.
SenderInfoCached(i) ==
    /\ ~exited
    /\ h[i].pc = "senderTick"
    /\ SenderKnown(i, h[i])
    /\ UNCHANGED <<sysVars, today, fileVars, chatCache, senderCache, lastProcessTime,
                   delivered, failures>>

\* The checks without the group gating of the mode.
filterStageUngated(message, self) ==
    LET chat == message.chat
    IN IF shouldFilterChat(chat, senderOf(message)) THEN "chat"
       ELSE IF isSpamMessage(message.text) THEN "spam"
       ELSE IF isGroupChat(chat) /\ message.fwdFrom THEN "forward"
       ELSE "pass"

\* The checks between getMyInfo() and logMessage, in the handler's order:
\* the stage that drops the message, or "pass".
filterStage(message, self) ==
    LET chat == message.chat
    IN IF shouldFilterChat(chat, senderOf(message)) THEN "chat"
       ELSE IF groupGated(message, chat, self) THEN "gating"
       ELSE IF isSpamMessage(message.text) THEN "spam"
       ELSE IF isGroupChat(chat) /\ message.fwdFrom THEN "forward"
       ELSE "pass"

\* The handler resumes with me: filtering, then messageData is built and
\* logMessage starts with ensureLogDir().
MyInfoKnown(i) ==
    /\ ~exited
    /\ h[i].pc = "meTick"
    /\ IF filterStage(h[i].ev, me) # "pass"
       THEN /\ filteredCount' = filteredCount + 1
            /\ h' = [h EXCEPT ![i] = Finish(h[i], "filtered")]
            /\ UNCHANGED <<messageCount, skippedCount>>
       ELSE /\ h' = [h EXCEPT ![i].pc = "mkdir",
                              ![i].entry = messageData(h[i].ev, me, today, i)]
            /\ UNCHANGED countVars
    /\ UNCHANGED <<sysVars, today, fileVars, cacheVars, lastProcessTime,
                   delivered, failures>>

(***************************************************************************)
(* logMessage(messageData)                                                 *)
(***************************************************************************)
\* ensureLogDir() is done: readFile(this.currentLogFile) is issued.
EnsureLogDirDone(i) ==
    /\ ~exited
    /\ h[i].pc = "mkdir"
    /\ h' = [h EXCEPT ![i].pc = "readFile", ![i].rfile = currentLogFile]
    /\ UNCHANGED <<sysVars, today, fileVars, cacheVars, lastProcessTime, countVars,
                   delivered, failures>>

\* The read is done (a missing file gives []): the entry is pushed and
\* writeFile(this.currentLogFile, ...) is issued.
ReadFileDone(i) ==
    /\ ~exited
    /\ h[i].pc = "readFile"
    /\ h' = [h EXCEPT ![i].pc = "writeFile",
                      ![i].logData = Append(files[h[i].rfile], h[i].entry),
                      ![i].wfile = currentLogFile]
    /\ UNCHANGED <<sysVars, today, fileVars, cacheVars, lastProcessTime, countVars,
                   delivered, failures>>

\* The whole file is rewritten.
WriteFileDone(i) ==
    /\ ~exited
    /\ h[i].pc = "writeFile"
    /\ files' = [files EXCEPT ![h[i].wfile] = h[i].logData]
    /\ h' = [h EXCEPT ![i].pc = "written"]
    /\ UNCHANGED <<sysVars, today, currentLogFile, cacheVars, lastProcessTime,
                   countVars, delivered, failures>>

\* readFile rejects for a reason other than a missing file, or JSON.parse
\* throws: the inner catch leaves logData = [], the entry is pushed and
\* writeFile(this.currentLogFile, ...) is issued.
ReadFileFailed(i) ==
    /\ ~exited
    /\ h[i].pc = "readFile"
    /\ h' = [h EXCEPT ![i].pc = "writeFile",
                      ![i].logData = <<h[i].entry>>,
                      ![i].wfile = currentLogFile]
    /\ UNCHANGED <<sysVars, today, fileVars, cacheVars, lastProcessTime, countVars,
                   delivered, failures>>

\* writeFile rejects and the file is as it was: the outer catch of
\* logMessage prints 'Error logging message:' and logMessage returns.
WriteFileFailed(i) ==
    /\ ~exited
    /\ h[i].pc = "writeFile"
    /\ h' = [h EXCEPT ![i].pc = "logError"]
    /\ UNCHANGED <<sysVars, today, fileVars, cacheVars, lastProcessTime, countVars,
                   delivered, failures>>

\* The return of logMessage with the event counted as skipped as well.
LogMessageReturnAlsoSkipped(i) ==
    /\ ~exited
    /\ h[i].pc \in {"written", "logError"}
    /\ messageCount' = messageCount + 1
    /\ skippedCount' = skippedCount + 1
    /\ h' = [h EXCEPT ![i] = Finish(h[i], "accepted")]
    /\ UNCHANGED <<sysVars, today, fileVars, cacheVars, lastProcessTime,
                   filteredCount, delivered, failures>>

\* logMessage returned, after its write or after its catch block: the
\* message is counted, then the log file is rotated if getLogFileName() no
\* longer equals currentLogFile.
LogMessageReturn(i) ==
    /\ ~exited
    /\ h[i].pc \in {"written", "logError"}
    /\ LET newLogFile == getLogFileName(today)
       IN IF newLogFile # currentLogFile
          THEN /\ currentLogFile' = newLogFile
               /\ messageCount' = 0
               /\ filteredCount' = 0
               /\ skippedCount' = 0
          ELSE /\ messageCount' = messageCount + 1
               /\ UNCHANGED <<currentLogFile, filteredCount, skippedCount>>
    /\ h' = [h EXCEPT ![i] = Finish(h[i], "accepted")]
    /\ UNCHANGED <<sysVars, today, files, cacheVars, lastProcessTime,
                   delivered, failures>>

(***************************************************************************)
(* Shutdown                                                                *)
(***************************************************************************)
\* The dates of the files a writeFile is rewriting at this moment.
FilesBeingWritten == {h[i].wfile : i \in {j \in Handlers : h[j].pc = "writeFile"}}

\* SIGINT: the handler of main() calls stop() (isRunning = false, the client
\* is disconnected if there is one) and then process.exit(0), all in one
\* synchronous run.  The activations that are suspended at an await never
\* resume.  A writeFile cut short by the exit either has not touched its
\* file yet or leaves it truncated: T is the set of files left truncated.
\* (A writeFile that got through before the exit is WriteFileDone followed
\* by Sigint.)
Sigint(T) ==
    /\ ~exited
    /\ T \subseteq FilesBeingWritten
    /\ isRunning' = FALSE
    /\ client' = IF client = "none" THEN "none" ELSE "disconnected"
    /\ exited' = TRUE
    /\ torn' = T
    /\ UNCHANGED <<env, registered, me, today, fileVars, cacheVars,
                   lastProcessTime, countVars, h, delivered, failures, reportVars>>

Next ==
    \/ Initialize
    \/ StartLogging
    \/ Backlog
    \/ Tick
    \/ \E e \in Events : Deliver(e)
    \/ \E i \in Handlers : RateLimitDone(i)
    \/ \E i \in Handlers : ChatInfoCached(i)
    \/ \E i \in Handlers, out \in {"ok", "empty", "fail"} : ApiCallDone(i, out)
    \/ \E i \in Handlers : RetrySleepDone(i)
    \/ \E i \in Handlers : ChannelSenderDone(i)
    \/ \E i \in Handlers : SenderInfoCached(i)
    \/ \E i \in Handlers : MyInfoKnown(i)
    \/ \E i \in Handlers : EnsureLogDirDone(i)
    \/ \E i \in Handlers : ReadFileDone(i)
    \/ \E i \in Handlers : WriteFileDone(i)
    \/ \E i \in Handlers : LogMessageReturn(i)
    \/ \E T \in SUBSET Days : Sigint(T)

Spec == Init /\ [][Next]_vars

(***************************************************************************)
(* SpecModes: one event goes through the handler, in every filter mode and *)
(* for every kind of chat, sender and text                                 *)
(***************************************************************************)
InitModes ==
    /\ env \in AllEnvs
    /\ client = "none"
    /\ isRunning = FALSE
    /\ registered = FALSE
    /\ me = NoEntity
    /\ today = 0
    /\ currentLogFile = getLogFileName(0)
    /\ files = [d \in Days |-> <<>>]
    /\ chatCache = {}
    /\ senderCache = {}
    /\ processedMessages = <<>>
    /\ oldKeys = 0
    /\ lastProcessTime = FALSE
    /\ messageCount = 0
    /\ filteredCount = 0
    /\ skippedCount = 0
    /\ h = [i \in Handlers |-> Idle]
    /\ delivered = 0
    /\ failures = 0
    /\ exited = FALSE
    /\ torn = {}
    /\ clock = 0
    /\ zone = UTC
    /\ dg = NoDigest
    /\ rank = NoRanking
    /\ cls = NoClassify
    /\ ft = NoFetch
    /\ sp = NoSpamCheck

\* The first event of the run arrives.
DeliverAlone(e) ==
    /\ delivered = 0
    /\ Deliver(e)

\* Its handler is through, and the next message of the same chat and sender
\* arrives.
DeliverFollowUp ==
    /\ delivered = 1
    /\ h[1].pc = "done"
    /\ Deliver([h[1].ev EXCEPT !.id = 2])

NextModes ==
    \/ Initialize
    \/ StartLogging
    \/ Backlog
    \/ \E e \in AllEvents : DeliverAlone(e)
    \/ DeliverFollowUp
    \/ \E i \in Handlers : RateLimitDone(i)
    \/ \E i \in Handlers : ChatInfoCached(i)
    \/ \E i \in Handlers, out \in {"ok", "empty", "fail"} : ApiCallDone(i, out)
    \/ \E i \in Handlers : RetrySleepDone(i)
    \/ \E i \in Handlers : ChannelSenderDone(i)
    \/ \E i \in Handlers : SenderInfoCached(i)
    \/ \E i \in Handlers : MyInfoKnown(i)
    \/ \E i \in Handlers : EnsureLogDirDone(i)
    \/ \E i \in Handlers : ReadFileDone(i)
    \/ \E i \in Handlers : WriteFileDone(i)
    \/ \E i \in Handlers : LogMessageReturn(i)

SpecModes == InitModes /\ [][NextModes]_vars


(***************************************************************************)
(* The digest of bot.js: generateWeeklyDigest over the log files           *)
(***************************************************************************)
WindowDays == 7         \* for (let i = 0; i < 7; i++)
MaxLogDate == 7         \* log files of the dates 0..MaxLogDate; the digest
                        \* runs on the date MaxLogDate
LogDates == 0..MaxLogDate

\* Two zones with daylight saving time: the clocks go back an hour
\* (ZoneAutumn) or forward an hour (ZoneSpring) at 01:00 UTC of date 4.
ZoneAutumn == [before |-> 2, after |-> 1, switch |-> 4 * 24 + 1]
ZoneSpring == [before |-> 1, after |-> 2, switch |-> 4 * 24 + 1]
Zones == {UTC, ZoneAutumn, ZoneSpring}

\* The local time (getDate, setDate work on it) of the instant t.
LocalTime(z, t) == t + (IF t < z.switch THEN z.before ELSE z.after)

\* The instant of the local time w.  A local time that occurs twice or not
\* at all around the switch is read with the offset before the switch.
UTCOf(z, w) ==
    IF w - z.before < z.switch THEN w - z.before
    ELSE IF w - z.after >= z.switch THEN w - z.after
    ELSE w - z.before

\* toISOString().split('T')[0]: the UTC date of the instant t.
utcDate(t) == t \div 24

\* dateStr of iteration i: date = new Date(); date.setDate(date.getDate() - i)
\* moves the local date back by i days and keeps the local time of day;
\* toISOString() then gives the UTC date of that instant.
dateStr(t, z, i) == utcDate(UTCOf(z, LocalTime(z, t) - 24 * i))

\* readFile and JSON.parse of the log file of date d: its entries.  A file
\* that is missing or cannot be parsed throws into the empty catch of the
\* loop and adds nothing.
readLog(d) == IF d \in DOMAIN files /\ d \notin torn THEN files[d] ELSE <<>>

\* allMessages after the first n iterations of the loop of
\* collectWeeklyLogs, run at the instant t in the zone z.
RECURSIVE collected(_, _, _)
collected(t, z, n) ==
    IF n = 0 THEN <<>>
    ELSE collected(t, z, n - 1) \o readLog(dateStr(t, z, n - 1))

collectWeeklyLogs(t, z) == collected(t, z, WindowDays)

\* The four filters at the head of generateAIDigest.
digestBuckets(messages) ==
    [directMessages |-> SelectSeq(messages, LAMBDA m : m.chatType = "dm" /\ ~m.isFromMe),
     groupMessages |-> SelectSeq(messages, LAMBDA m : m.chatType = "group"),
     mentions |-> SelectSeq(messages, LAMBDA m : m.isMention),
     myMessages |-> SelectSeq(messages, LAMBDA m : m.isFromMe)]

\* The text the service returned, and the sentence generateAIDigest returns
\* when the request failed.
AIReport == [kind |-> "ai", mode |-> "", stats |-> NoStats]
ErrorReport == [kind |-> "error", mode |-> "", stats |-> NoStats]

\* One iteration of the loop of collectWeeklyLogs.
CollectRead ==
    /\ dg.prog = "bot" /\ dg.pc = "collect"
    /\ dg.i < WindowDays
    /\ LET d == dateStr(clock, zone, dg.i)
       IN dg' = [dg EXCEPT !.messages = @ \o readLog(d),
                           !.read = Append(@, d),
                           !.i = @ + 1]
    /\ UNCHANGED <<loggerVars, clock, zone, rank, cls, ft, sp>>

\* collectWeeklyLogs returned: with no message generateWeeklyDigest prints
\* its notice and returns; else generateAIDigest fills its buckets and
\* sends the request.
WeeklyLogsCollected ==
    /\ dg.prog = "bot" /\ dg.pc = "collect"
    /\ dg.i = WindowDays
    /\ IF Len(dg.messages) = 0
       THEN dg' = [dg EXCEPT !.notice = TRUE, !.pc = "done"]
       ELSE dg' = [dg EXCEPT !.analysis = digestBuckets(dg.messages),
                             !.calls = @ + 1, !.pc = "post"]
    /\ UNCHANGED <<loggerVars, clock, zone, rank, cls, ft, sp>>

(***************************************************************************)
(* ReportGenerator (report-generator.js): generateReport over the messages *)
(* of the bulk fetcher                                                     *)
(***************************************************************************)
MaxMessages == 3        \* length of the input of generateReport
TopLimit == 10          \* slice(0, 10)

\* A chat title as a property name of chatActivity: an integer-like name
\* ("7", index) or any other name (the n-th of them).  Names that Object's
\* prototype defines are left out.
IndexTitle(n) == [index |-> TRUE, n |-> n]
NameTitle(n) == [index |-> FALSE, n |-> n]

\* A message as MessageFetcher.fetchDialogMessages builds it.  Chats 2 and 4
\* are two groups with the same title.
Fetched(ts, chatId, title, chatType, senderId, mention) ==
    [timestamp |-> ts, chatId |-> chatId, chatTitle |-> title, chatType |-> chatType,
     senderId |-> senderId, isFromMe |-> (senderId = Me.id), isMention |-> mention]
FetchedMessages ==
    {Fetched(1, 1, NameTitle(1), "dm", Other.id, FALSE),
     Fetched(2, 1, NameTitle(1), "dm", Me.id, FALSE),
     Fetched(3, 2, NameTitle(2), "group", Bot.id, TRUE),
     Fetched(4, 2, NameTitle(2), "group", Me.id, FALSE),
     Fetched(5, 3, IndexTitle(7), "channel", Other.id, FALSE),
     Fetched(6, 3, IndexTitle(7), "channel", Bot.id, TRUE),
     Fetched(7, 4, NameTitle(2), "group", Other.id, FALSE)}

\* chatActivity[title] = (chatActivity[title] || 0) + 1.  chatActivity is
\* kept as the list Object.entries gives: the integer-like names in
\* ascending numeric order, then the other names in the order they were
\* first assigned.
countMessage(chatActivity, title) ==
    IF \E k \in DOMAIN chatActivity : chatActivity[k].title = title
    THEN [k \in DOMAIN chatActivity |->
            IF chatActivity[k].title = title
            THEN [chatActivity[k] EXCEPT !.count = @ + 1]
            ELSE chatActivity[k]]
    ELSE LET before ==
                 IF title.index
                 THEN Cardinality({k \in DOMAIN chatActivity :
                                     /\ chatActivity[k].title.index
                                     /\ chatActivity[k].title.n < title.n})
                 ELSE Len(chatActivity)
         IN SubSeq(chatActivity, 1, before)
                \o <<[title |-> title, count |-> 1]>>
                \o SubSeq(chatActivity, before + 1, Len(chatActivity))

\* messages.forEach(msg => ...)
RECURSIVE chatActivityOf(_)
chatActivityOf(messages) ==
    IF messages = <<>> THEN <<>>
    ELSE countMessage(chatActivityOf(SubSeq(messages, 1, Len(messages) - 1)),
                      messages[Len(messages)].chatTitle)

\* Object.entries(chatActivity).sort(([,a], [,b]) => b - a).slice(0, 10):
\* the sort is stable, so an entry comes after the entries with a larger
\* count and after the earlier entries with the same count.
topChats(chatActivity) ==
    LET n == Len(chatActivity)
        place(k) == 1 + Cardinality({j \in 1..n :
                            \/ chatActivity[j].count > chatActivity[k].count
                            \/ /\ chatActivity[j].count = chatActivity[k].count
                               /\ j < k})
        sorted == [q \in 1..n |-> chatActivity[CHOOSE k \in 1..n : place(k) = q]]
    IN SubSeq(sorted, 1, Min(TopLimit, n))

\* Math.min / Math.max over the timestamps (null for no message).
oldest(messages) ==
    IF messages = <<>> THEN Undefined
    ELSE CHOOSE t \in {messages[k].timestamp : k \in DOMAIN messages} :
            \A k \in DOMAIN messages : t <= messages[k].timestamp
newest(messages) ==
    IF messages = <<>> THEN Undefined
    ELSE CHOOSE t \in {messages[k].timestamp : k \in DOMAIN messages} :
            \A k \in DOMAIN messages : t >= messages[k].timestamp

\* analyzeMessages with a directMessages that keeps the self-authored ones.
analyzeMessagesAllDirect(messages) ==
    [directMessages |-> SelectSeq(messages, LAMBDA m : m.chatType = "dm"),
     groupMessages |-> SelectSeq(messages, LAMBDA m : m.chatType = "group"),
     channelMessages |-> SelectSeq(messages, LAMBDA m : m.chatType = "channel"),
     mentions |-> SelectSeq(messages, LAMBDA m : m.isMention),
     myMessages |-> SelectSeq(messages, LAMBDA m : m.isFromMe),
     stats |-> [totalChats |-> Cardinality({messages[k].chatId : k \in DOMAIN messages}),
                activeSenders |-> Cardinality({messages[k].senderId :
                                    k \in {j \in DOMAIN messages : ~messages[j].isFromMe}}),
                oldestMessage |-> oldest(messages),
                newestMessage |-> newest(messages)],
     topChats |-> topChats(chatActivityOf(messages))]

\* analyzeMessages(messages)
analyzeMessages(messages) ==
    [directMessages |-> SelectSeq(messages, LAMBDA m : m.chatType = "dm" /\ ~m.isFromMe),
     groupMessages |-> SelectSeq(messages, LAMBDA m : m.chatType = "group"),
     channelMessages |-> SelectSeq(messages, LAMBDA m : m.chatType = "channel"),
     mentions |-> SelectSeq(messages, LAMBDA m : m.isMention),
     myMessages |-> SelectSeq(messages, LAMBDA m : m.isFromMe),
     stats |-> [totalChats |-> Cardinality({messages[k].chatId : k \in DOMAIN messages}),
                activeSenders |-> Cardinality({messages[k].senderId :
                                    k \in {j \in DOMAIN messages : ~messages[j].isFromMe}}),
                oldestMessage |-> oldest(messages),
                newestMessage |-> newest(messages)],
     topChats |-> topChats(chatActivityOf(messages))]

\* createFallbackReport(analysis): the numbers it prints.
createFallbackReport(analysis) ==
    [kind |-> "fallback", mode |-> "",
     stats |-> [total |-> Len(analysis.directMessages) + Len(analysis.groupMessages)
                            + Len(analysis.channelMessages) + Len(analysis.myMessages),
                direct |-> Len(analysis.directMessages),
                group |-> Len(analysis.groupMessages),
                channel |-> Len(analysis.channelMessages),
                mentions |-> Len(analysis.mentions),
                mine |-> Len(analysis.myMessages),
                chats |-> analysis.stats.totalChats,
                senders |-> analysis.stats.activeSenders]]

\* An empty report that does not say which filter mode was active.
createEmptyReportNoMode == [kind |-> "empty", mode |-> "", stats |-> NoStats]

\* createEmptyReport(): 'No messages found for the specified time period and
\* filter settings', with the filter mode.
createEmptyReport == [kind |-> "empty", mode |-> env.FILTER_MODE, stats |-> NoStats]

\* generateReport(messages) up to its first await: the empty report goes
\* straight to saveReport; else analyzeMessages, then callDeepSeekAPI, which
\* returns an error sentence when there is no API key and sends the request
\* otherwise.
GenerateReport ==
    /\ dg.prog = "main" /\ dg.pc = "start"
    /\ IF Len(dg.messages) = 0
       THEN dg' = [dg EXCEPT !.digest = createEmptyReport, !.pc = "save"]
       ELSE IF ~dg.apiKey
       THEN dg' = [dg EXCEPT !.analysis = analyzeMessages(dg.messages),
                             !.digest = ErrorReport, !.pc = "save"]
       ELSE dg' = [dg EXCEPT !.analysis = analyzeMessages(dg.messages),
                             !.calls = @ + 1, !.pc = "post"]
    /\ UNCHANGED <<loggerVars, clock, zone, rank, cls, ft, sp>>

\* axios.post is over.  It succeeds only with an API key.  On an error
\* generateAIDigest of bot.js returns its error sentence, callDeepSeekAPI
\* returns createFallbackReport(analysis).
PostDone(ok) ==
    /\ dg.pc = "post"
    /\ ok => dg.apiKey
    /\ dg' = [dg EXCEPT !.digest = IF ok THEN AIReport
                                   ELSE IF dg.prog = "bot" THEN ErrorReport
                                   ELSE createFallbackReport(dg.analysis),
                        !.pc = "save"]
    /\ UNCHANGED <<loggerVars, clock, zone, rank, cls, ft, sp>>

\* saveDigestReport / saveReport is over: the report is written, or
\* writeFile threw and the error is caught by generateWeeklyDigest (of bot.js
\* for "bot", of main.js for "main").
SaveDone(ok) ==
    /\ dg.pc = "save"
    /\ dg' = IF ok THEN [dg EXCEPT !.saved = dg.digest, !.pc = "done"]
                   ELSE [dg EXCEPT !.err = "caught", !.pc = "done"]
    /\ UNCHANGED <<loggerVars, clock, zone, rank, cls, ft, sp>>

\* The log files a logger has left: every file of present holds a direct
\* message and a channel post of its date.
LogOf(d) ==
    <<[messageData(Message(ChatDM, PlainText), Me, d, 1) EXCEPT !.filterMode = "smart"],
      [messageData(Message(ChatQuietChannel, PlainText), Me, d, 2)
           EXCEPT !.filterMode = "smart"]>>

\* The inputs of generateReport.
RECURSIVE SeqsUpTo(_, _)
SeqsUpTo(S, n) ==
    IF n = 0 THEN {<<>>}
    ELSE LET shorter == SeqsUpTo(S, n - 1)
         IN shorter \cup {Append(q, x) : q \in shorter, x \in S}

\* A digest run starts: `node bot.js digest` with some log files present,
\* at most one of them cut short by an earlier exit, at 00:xx or 23:xx UTC of
\* the date MaxLogDate; or generateReport with the messages of the fetcher.
InitDigest ==
    /\ env \in Envs
    /\ client = "none"
    /\ isRunning = FALSE
    /\ registered = FALSE
    /\ me = NoEntity
    /\ today = MaxLogDate
    /\ currentLogFile = getLogFileName(MaxLogDate)
    /\ chatCache = {}
    /\ senderCache = {}
    /\ processedMessages = <<>>
    /\ oldKeys = 0
    /\ lastProcessTime = FALSE
    /\ messageCount = 0
    /\ filteredCount = 0
    /\ skippedCount = 0
    /\ h = [i \in Handlers |-> Idle]
    /\ delivered = 0
    /\ failures = 0
    /\ exited = FALSE
    /\ rank = NoRanking
    /\ cls = NoClassify
    /\ ft = NoFetch
    /\ sp = NoSpamCheck
    /\ \/ /\ \E present \in SUBSET LogDates :
                /\ files = [d \in LogDates |-> IF d \in present THEN LogOf(d) ELSE <<>>]
                /\ torn \in {t \in SUBSET present : Cardinality(t) <= 1}
          /\ clock \in {MaxLogDate * 24, MaxLogDate * 24 + 23}
          /\ zone \in Zones
          /\ \E key \in BOOLEAN :
                dg = [NoDigest EXCEPT !.prog = "bot", !.pc = "collect", !.apiKey = key]
       \/ /\ files = [d \in LogDates |-> <<>>]
          /\ torn = {}
          /\ clock = MaxLogDate * 24
          /\ zone = UTC
          /\ \E key \in BOOLEAN, input \in SeqsUpTo(FetchedMessages, MaxMessages) :
                dg = [NoDigest EXCEPT !.prog = "main", !.pc = "start", !.apiKey = key,
                                      !.messages = input]

NextDigest ==
    \/ CollectRead
    \/ WeeklyLogsCollected
    \/ GenerateReport
    \/ \E ok \in BOOLEAN : PostDone(ok)
    \/ \E ok \in BOOLEAN : SaveDone(ok)

SpecDigest == InitDigest /\ [][NextDigest]_vars

(***************************************************************************)
(* SpecRank: the ranking of analyzeMessages, message by message            *)
(***************************************************************************)
MaxRanked == 12         \* number of messages of the input

\* The titles of the input: TopLimit + 1 names and two integer-like names.
\* Names are alike, so the input takes them in their order: a message has
\* a title that was seen before, the next name or an integer-like name.
IndexTitles == {IndexTitle(3), IndexTitle(7)}
NextTitles ==
    LET names == Cardinality({k \in DOMAIN rank.seen : ~rank.seen[k].index})
    IN {rank.seen[k] : k \in DOMAIN rank.seen} \cup IndexTitles
           \cup (IF names <= TopLimit THEN {NameTitle(names + 1)} ELSE {})

\* One iteration of messages.forEach.
CountMessage(title) ==
    /\ rank.pc = "count"
    /\ rank.counted < MaxRanked
    /\ rank' = [rank EXCEPT
                  !.chatActivity = countMessage(@, title),
                  !.seen = IF \E k \in DOMAIN @ : @[k] = title THEN @ ELSE Append(@, title),
                  !.counted = @ + 1]
    /\ UNCHANGED <<loggerVars, clock, zone, dg, cls, ft, sp>>

\* The input is through: topChats is computed.
RankChats ==
    /\ rank.pc = "count"
    /\ rank' = [rank EXCEPT !.topChats = topChats(rank.chatActivity), !.pc = "ranked"]
    /\ UNCHANGED <<loggerVars, clock, zone, dg, cls, ft, sp>>

InitRank ==
    /\ env \in Envs
    /\ client = "none"
    /\ isRunning = FALSE
    /\ registered = FALSE
    /\ me = NoEntity
    /\ today = 0
    /\ currentLogFile = getLogFileName(0)
    /\ files = [d \in Days |-> <<>>]
    /\ chatCache = {}
    /\ senderCache = {}
    /\ processedMessages = <<>>
    /\ oldKeys = 0
    /\ lastProcessTime = FALSE
    /\ messageCount = 0
    /\ filteredCount = 0
    /\ skippedCount = 0
    /\ h = [i \in Handlers |-> Idle]
    /\ delivered = 0
    /\ failures = 0
    /\ exited = FALSE
    /\ torn = {}
    /\ clock = 0
    /\ zone = UTC
    /\ dg = NoDigest
    /\ rank = [NoRanking EXCEPT !.pc = "count"]
    /\ cls = NoClassify
    /\ ft = NoFetch
    /\ sp = NoSpamCheck

NextRank ==
    \/ \E title \in NextTitles : CountMessage(title)
    \/ RankChats

SpecRank == InitRank /\ [][NextRank]_vars

(***************************************************************************)
(* SpecClassify: the two getChatType over the flags of an entity           *)
(***************************************************************************)
ClassNames == {"User", "Chat", "Channel"}
\* participantsCount: absent, zero, or some number of members
Counts == {Undefined, 0, 150}
Entities ==
    [className : ClassNames, broadcast : BOOLEAN, megagroup : BOOLEAN,
     gigagroup : BOOLEAN, bot : BOOLEAN, participantsCount : Counts]

\* ChatUtils.getChatType(entity) of chat-utils.js
getChatType(entity) ==
    LET isUser == entity.className = "User"
        isBot == entity.bot
        isChannel == \/ entity.broadcast
                     \/ (entity.className = "Channel" /\ ~entity.megagroup /\ ~entity.gigagroup)
        isGroup == \/ entity.megagroup
                   \/ entity.gigagroup
                   \/ (entity.className = "Channel" /\ (entity.megagroup \/ entity.gigagroup))
                   \/ (entity.participantsCount # Undefined /\ ~isChannel /\ ~isUser)
        isDM == (isUser /\ ~isBot) \/ (~isChannel /\ ~isGroup /\ ~isBot /\ ~isUser)
    IN [type |-> IF isChannel THEN "channel"
                 ELSE IF isGroup THEN "group"
                 ELSE IF isBot THEN "bot"
                 ELSE "dm",
        isChannel |-> isChannel, isGroup |-> isGroup, isBot |-> isBot, isDM |-> isDM]

\* MessageFetcher.getChatType(entity) of message-fetcher.js
fetcherGetChatType(entity) ==
    LET isChannel == entity.broadcast \/ entity.className = "Channel"
        isGroup == \/ entity.megagroup
                   \/ entity.gigagroup
                   \/ (entity.participantsCount # Undefined /\ ~isChannel)
    IN IF isChannel THEN "channel" ELSE IF isGroup THEN "group" ELSE "dm"

ClassifyByUtils ==
    /\ cls.pc = "run" /\ cls.utils = ""
    /\ cls' = [cls EXCEPT !.utils = getChatType(cls.entity).type,
                         !.info = getChatType(cls.entity)]
    /\ UNCHANGED <<loggerVars, clock, zone, dg, rank, ft, sp>>

ClassifyByFetcher ==
    /\ cls.pc = "run" /\ cls.fetcher = ""
    /\ cls' = [cls EXCEPT !.fetcher = fetcherGetChatType(cls.entity)]
    /\ UNCHANGED <<loggerVars, clock, zone, dg, rank, ft, sp>>

InitClassify ==
    /\ env \in Envs
    /\ client = "none"
    /\ isRunning = FALSE
    /\ registered = FALSE
    /\ me = NoEntity
    /\ today = 0
    /\ currentLogFile = getLogFileName(0)
    /\ files = [d \in Days |-> <<>>]
    /\ chatCache = {}
    /\ senderCache = {}
    /\ processedMessages = <<>>
    /\ oldKeys = 0
    /\ lastProcessTime = FALSE
    /\ messageCount = 0
    /\ filteredCount = 0
    /\ skippedCount = 0
    /\ h = [i \in Handlers |-> Idle]
    /\ delivered = 0
    /\ failures = 0
    /\ exited = FALSE
    /\ torn = {}
    /\ clock = 0
    /\ zone = UTC
    /\ dg = NoDigest
    /\ rank = NoRanking
    /\ \E entity \in Entities : cls = [NoClassify EXCEPT !.pc = "run", !.entity = entity]
    /\ ft = NoFetch
    /\ sp = NoSpamCheck

NextClassify ==
    \/ ClassifyByUtils
    \/ ClassifyByFetcher

SpecClassify == InitClassify /\ [][NextClassify]_vars

(***************************************************************************)
(* MessageFilter (message-filter.js)                                       *)
(***************************************************************************)
SuperStrictLimit == 50      \* entity.participantsCount <= 50
SmartGroupLimit == 500      \* entity.participantsCount <= 500
FilterChannelLimit == 1000  \* entity.participantsCount > 1000

\* `entity.participantsCount && ...`: the count is there and is not 0.
truthy(count) == count # Undefined /\ count # 0

\* smartFilter(entity, isChannel, isGroup, isBot, isDM).  spamChat: the title
\* holds a keyword of isSpamChat.
smartFilter(entity, isChannel, isGroup, isBot, isDM) ==
    LET count == entity.participantsCount
    IN IF isDM /\ ~isBot THEN TRUE
       ELSE IF env.BLOCK_ALL_CHANNELS /\ isChannel THEN FALSE
       ELSE IF isChannel /\ truthy(count) /\ count > FilterChannelLimit THEN FALSE
       ELSE IF (isChannel \/ isGroup) /\ entity.spamChat THEN FALSE
       ELSE IF isGroup /\ truthy(count) /\ count <= SmartGroupLimit THEN TRUE
       ELSE IF isChannel /\ (~truthy(count) \/ count <= FilterChannelLimit) THEN TRUE
       ELSE FALSE

\* An allowlist mode in which an empty list lets no chat in.
shouldIncludeDialogEmptyNone(entity) ==
    IF env.FILTER_MODE = "allowlist" THEN entity.id \in env.ALLOWED_CHAT_IDS ELSE TRUE

\* shouldIncludeDialog(dialog), with entity = dialog.entity
shouldIncludeDialog(entity) ==
    LET t == getChatType(entity)
        count == entity.participantsCount
    IN CASE env.FILTER_MODE = "allowlist" ->
                IF env.ALLOWED_CHAT_IDS = {} THEN TRUE
                ELSE entity.id \in env.ALLOWED_CHAT_IDS
         [] env.FILTER_MODE = "dm_only" -> t.isDM /\ ~t.isBot
         [] env.FILTER_MODE = "no_channels" ->
                IF t.isChannel THEN FALSE
                ELSE IF t.isGroup /\ entity.spamChat THEN FALSE
                ELSE TRUE
         [] env.FILTER_MODE = "super_strict" ->
                t.isDM \/ (t.isGroup /\ truthy(count) /\ count <= SuperStrictLimit)
         [] env.FILTER_MODE = "exclude_keywords" ->
                IF ~env.EXCLUDED_KEYWORDS THEN TRUE
                ELSE ~entity.titleExcluded
         [] env.FILTER_MODE = "exclude_folders" ->
                IF ~env.EXCLUDED_FOLDERS THEN TRUE
                ELSE ~entity.folder
         [] OTHER -> smartFilter(entity, t.isChannel, t.isGroup, t.isBot, t.isDM)

\* MessageFilter.isFromMe(message), checkMention(text), isSpamMessage(text)
filterIsFromMe(message) == message.sender.id = Me.id
filterCheckMention(text) ==
    IF text.len = 0 THEN FALSE
    ELSE (Me.hasUsername /\ text.atUser) \/ text.hasName
filterIsSpamMessage(text) == text.kwFilter \/ text.emoji > SpamEmojiLimit

\* shouldIncludeMessage(message, chatType)
shouldIncludeMessage(message, chatType) ==
    IF message.text.len = 0 \/ message.text.blank THEN FALSE
    ELSE IF filterIsSpamMessage(message.text) THEN FALSE
    ELSE IF /\ env.FILTER_MODE = "super_strict" /\ chatType = "group"
            /\ ~filterIsFromMe(message) /\ ~filterCheckMention(message.text) THEN FALSE
    ELSE IF chatType = "group" /\ message.fwdFrom /\ ~filterIsFromMe(message) THEN FALSE
    ELSE TRUE

(***************************************************************************)
(* MessageFetcher (message-fetcher.js): fetchWeeklyMessages                *)
(***************************************************************************)
MaxDialogs == 3         \* number of dialogs of a fetch over several chats

\* The entities of the dialogs: a user or a bot, a basic group with its
\* number of members, a broadcast channel, a supergroup or a gigagroup.
DialogCounts == {0, 50, 51, 100, 101, 500, 501, 1000, 1001}
DialogEntities ==
    {e \in [className : ClassNames, bot : BOOLEAN, broadcast : BOOLEAN, megagroup : BOOLEAN,
            gigagroup : BOOLEAN, participantsCount : {Undefined} \cup DialogCounts,
            id : {1, 2}, titleSpam : {FALSE}, spamChat : BOOLEAN, titleExcluded : BOOLEAN,
            folder : BOOLEAN] :
        \/ /\ e.className = "User"
           /\ ~e.broadcast /\ ~e.megagroup /\ ~e.gigagroup
           /\ e.participantsCount = Undefined
           /\ ~e.spamChat /\ ~e.titleExcluded
        \/ /\ e.className = "Chat"
           /\ ~e.bot /\ ~e.broadcast /\ ~e.megagroup /\ ~e.gigagroup
           /\ e.participantsCount # Undefined
        \/ /\ e.className = "Channel"
           /\ ~e.bot
           /\ e.broadcast # e.megagroup
           /\ e.gigagroup => e.megagroup}

\* The titles, folders and ids vary in the modes that read them.
DialogOf(e) ==
    /\ e.spamChat => env.FILTER_MODE \in {"smart", "no_channels"}
    /\ e.titleExcluded => env.EXCLUDED_KEYWORDS
    /\ e.folder => env.EXCLUDED_FOLDERS
    /\ e.id # 1 => env.FILTER_MODE = "allowlist"

\* The messages getMessages returns, all of the last 7 days.
FetchMessages ==
    {[id |-> 1, text |-> t, sender |-> u, fwdFrom |-> f] :
        t \in {PlainText, MentionText, SpamText, BlankText}, u \in Users, f \in BOOLEAN}

\* The dialogs of a fetch over several chats: a user, a small group and a
\* small channel, each with one message.
UserDialog ==
    [entity |-> [className |-> "User", bot |-> FALSE, broadcast |-> FALSE,
                 megagroup |-> FALSE, gigagroup |-> FALSE, participantsCount |-> Undefined,
                 id |-> 1, titleSpam |-> FALSE, spamChat |-> FALSE, titleExcluded |-> FALSE,
                 folder |-> FALSE],
     messages |-> <<[id |-> 1, text |-> PlainText, sender |-> Other, fwdFrom |-> FALSE]>>]
GroupDialog ==
    [entity |-> [UserDialog.entity EXCEPT !.className = "Chat", !.participantsCount = 50,
                                          !.id = 2],
     messages |-> <<[id |-> 2, text |-> MentionText, sender |-> Other, fwdFrom |-> FALSE]>>]
ChannelDialog ==
    [entity |-> [UserDialog.entity EXCEPT !.className = "Channel", !.broadcast = TRUE,
                                          !.id = 3],
     messages |-> <<[id |-> 3, text |-> PlainText, sender |-> Other, fwdFrom |-> FALSE]>>]
SomeDialogs == {UserDialog, GroupDialog, ChannelDialog}

\* messageData of fetchDialogMessages
fetchedMessageData(entity, chatType, message) ==
    [messageId |-> message.id,
     chatId |-> entity.id,
     chatType |-> chatType,
     senderId |-> message.sender.id,
     text |-> message.text,
     isFromMe |-> filterIsFromMe(message),
     isMention |-> filterCheckMention(message.text),
     filterMode |-> env.FILTER_MODE,
     participantCount |-> IF truthy(entity.participantsCount)
                          THEN entity.participantsCount ELSE Undefined]

\* The loop of fetchDialogMessages over the messages of a dialog.
RECURSIVE processedOf(_, _, _)
processedOf(entity, chatType, messages) ==
    IF messages = <<>> THEN <<>>
    ELSE LET rest == processedOf(entity, chatType, Tail(messages))
         IN IF shouldIncludeMessage(Head(messages), chatType)
            THEN <<fetchedMessageData(entity, chatType, Head(messages))>> \o rest
            ELSE rest

\* The head of the loop over the dialogs: return after the last dialog; skip
\* a dialog shouldIncludeDialog rejects; else call fetchDialogMessages, whose
\* getMessages runs under retryApiCall.
FetchNextDialog ==
    /\ ft.pc = "loop"
    /\ IF ft.k = Len(ft.dialogs)
       THEN ft' = [ft EXCEPT !.pc = "returned"]
       ELSE LET entity == ft.dialogs[ft.k + 1].entity
                include == shouldIncludeDialog(entity)
            IN ft' = [ft EXCEPT
                        !.k = @ + 1,
                        !.decided = Append(@, include),
                        !.includedDialogs = IF include THEN @ + 1 ELSE @,
                        !.retry = IF include THEN retryStart(DefaultMaxRetries, DefaultDelay)
                                  ELSE NoRetry,
                        !.pc = IF include THEN "getMessages" ELSE "loop"]
    /\ UNCHANGED <<loggerVars, clock, zone, dg, rank, cls, sp>>

\* getMessages of the current dialog is over, with no try around the call of
\* fetchDialogMessages: the error of the last attempt ends the fetch.
GetMessagesDoneUnisolated(ok) ==
    /\ ft.pc = "getMessages"
    /\ LET d == ft.dialogs[ft.k]
           rt == IF ok THEN retryReturn(ft.retry, "ok") ELSE retryCatch(ft.retry)
       IN ft' = IF ok
                THEN [ft EXCEPT
                        !.retry = rt,
                        !.allMessages = @ \o processedOf(d.entity,
                                                          fetcherGetChatType(d.entity),
                                                          d.messages),
                        !.pc = "rate"]
                ELSE IF rt.result = "thrown"
                THEN [ft EXCEPT !.retry = rt, !.allMessages = <<>>, !.pc = "returned"]
                ELSE [ft EXCEPT !.retry = rt, !.pc = "sleep"]
    /\ UNCHANGED <<loggerVars, clock, zone, dg, rank, cls, sp>>

\* getMessages of the current dialog is over.  It returned: the messages
\* that pass shouldIncludeMessage are pushed to allMessages.  It failed:
\* retryApiCall sleeps, or throws after the last attempt, and the catch of
\* the loop prints its warning.
GetMessagesDone(ok) ==
    /\ ft.pc = "getMessages"
    /\ LET d == ft.dialogs[ft.k]
           rt == IF ok THEN retryReturn(ft.retry, "ok") ELSE retryCatch(ft.retry)
       IN ft' = IF ok
                THEN [ft EXCEPT
                        !.retry = rt,
                        !.allMessages = @ \o processedOf(d.entity,
                                                          fetcherGetChatType(d.entity),
                                                          d.messages),
                        !.pc = "rate"]
                ELSE IF rt.result = "thrown"
                THEN [ft EXCEPT !.retry = rt, !.warned = @ \cup {ft.k}, !.pc = "rate"]
                ELSE [ft EXCEPT !.retry = rt, !.pc = "sleep"]
    /\ UNCHANGED <<loggerVars, clock, zone, dg, rank, cls, sp>>

\* The sleep of retryApiCall is over: getMessages is called again.
FetchRetrySleepDone ==
    /\ ft.pc = "sleep"
    /\ ft' = [ft EXCEPT !.retry = retryNext(@), !.pc = "getMessages"]
    /\ UNCHANGED <<loggerVars, clock, zone, dg, rank, cls, sp>>

\* The 150 ms of rate limiting are over: next dialog.
FetchRateLimitDone ==
    /\ ft.pc = "rate"
    /\ ft' = [ft EXCEPT !.pc = "loop"]
    /\ UNCHANGED <<loggerVars, clock, zone, dg, rank, cls, sp>>

\* fetchWeeklyMessages after getDialogs: one dialog of any kind with one
\* message of any kind, in any configuration; or several dialogs in smart
\* mode.
InitFetch ==
    /\ client = "connected"
    /\ isRunning = FALSE
    /\ registered = FALSE
    /\ me = Me
    /\ today = 0
    /\ currentLogFile = getLogFileName(0)
    /\ files = [d \in Days |-> <<>>]
    /\ chatCache = {}
    /\ senderCache = {}
    /\ processedMessages = <<>>
    /\ oldKeys = 0
    /\ lastProcessTime = FALSE
    /\ messageCount = 0
    /\ filteredCount = 0
    /\ skippedCount = 0
    /\ h = [i \in Handlers |-> Idle]
    /\ delivered = 0
    /\ failures = 0
    /\ exited = FALSE
    /\ torn = {}
    /\ clock = 0
    /\ zone = UTC
    /\ dg = NoDigest
    /\ rank = NoRanking
    /\ cls = NoClassify
    /\ sp = NoSpamCheck
    /\ \/ /\ env \in AllEnvs
          /\ \E e \in DialogEntities, m \in FetchMessages :
                /\ DialogOf(e)
                /\ ft = [NoFetch EXCEPT !.pc = "loop",
                                        !.dialogs = <<[entity |-> e, messages |-> <<m>>]>>]
       \/ /\ env \in Envs
          /\ env.FILTER_MODE = "smart"
          /\ \E ds \in SeqsUpTo(SomeDialogs, MaxDialogs) :
                /\ Len(ds) > 1
                /\ \A a, b \in DOMAIN ds : a < b => ds[a].entity.id < ds[b].entity.id
                /\ ft = [NoFetch EXCEPT !.pc = "loop", !.dialogs = ds]

NextFetch ==
    \/ FetchNextDialog
    \/ \E ok \in BOOLEAN : GetMessagesDone(ok)
    \/ FetchRetrySleepDone
    \/ FetchRateLimitDone

SpecFetch == InitFetch /\ [][NextFetch]_vars

(***************************************************************************)
(* SpecChecks: the checks of bot.js and of message-filter.js on one text   *)
(* or on one chat                                                          *)
(***************************************************************************)
\* Texts of 20, 21 and 22 characters with 0, 5 or 6 emoji and with capital
\* letters below, at and above half of the length.
SpamTexts ==
    {t \in [len : {20, 21, 22}, emoji : {0, 5, 6}, caps : {0, 10, 11, 12, 20},
            kw : BOOLEAN, kwFilter : BOOLEAN, atUser : {FALSE}, hasName : {FALSE},
            blank : {FALSE}] :
        t.caps + t.emoji <= t.len}

\* this.isSpamMessage(message.text) of the handler of bot.js
SpamByBot ==
    /\ sp.pc = "text" /\ sp.bot = ""
    /\ sp' = [sp EXCEPT !.bot = IF isSpamMessage(sp.text) THEN "spam" ELSE "clean"]
    /\ UNCHANGED <<loggerVars, clock, zone, dg, rank, cls, ft>>

\* this.isSpamMessage(message.text) of shouldIncludeMessage
SpamByFilter ==
    /\ sp.pc = "text" /\ sp.filter = ""
    /\ sp' = [sp EXCEPT !.filter = IF filterIsSpamMessage(sp.text) THEN "spam" ELSE "clean"]
    /\ UNCHANGED <<loggerVars, clock, zone, dg, rank, cls, ft>>

\* The sender of a message of the chat: the user of a private chat, a member
\* of a group.
senderIn(chat) == IF chat.className = "User" THEN [Other EXCEPT !.bot = chat.bot] ELSE Other

\* this.shouldFilterChat(chat.id, chat, sender) of the handler of bot.js
ChatByBot ==
    /\ sp.pc = "chat" /\ sp.botChat = ""
    /\ sp' = [sp EXCEPT !.botChat = IF shouldFilterChat(sp.chat, senderIn(sp.chat))
                                    THEN "filter" ELSE "keep"]
    /\ UNCHANGED <<loggerVars, clock, zone, dg, rank, cls, ft>>

\* this.filter.shouldIncludeDialog(dialog) of the fetcher
ChatByFilter ==
    /\ sp.pc = "chat" /\ sp.filterChat = ""
    /\ sp' = [sp EXCEPT !.filterChat = IF shouldIncludeDialog(sp.chat)
                                       THEN "include" ELSE "exclude"]
    /\ UNCHANGED <<loggerVars, clock, zone, dg, rank, cls, ft>>

InitChecks ==
    /\ client = "none"
    /\ isRunning = FALSE
    /\ registered = FALSE
    /\ me = NoEntity
    /\ today = 0
    /\ currentLogFile = getLogFileName(0)
    /\ files = [d \in Days |-> <<>>]
    /\ chatCache = {}
    /\ senderCache = {}
    /\ processedMessages = <<>>
    /\ oldKeys = 0
    /\ lastProcessTime = FALSE
    /\ messageCount = 0
    /\ filteredCount = 0
    /\ skippedCount = 0
    /\ h = [i \in Handlers |-> Idle]
    /\ delivered = 0
    /\ failures = 0
    /\ exited = FALSE
    /\ torn = {}
    /\ clock = 0
    /\ zone = UTC
    /\ dg = NoDigest
    /\ rank = NoRanking
    /\ cls = NoClassify
    /\ ft = NoFetch
    /\ \/ /\ env \in Envs
          /\ \E t \in SpamTexts : sp = [NoSpamCheck EXCEPT !.pc = "text", !.text = t]
       \/ /\ env \in AllEnvs
          /\ \E e \in DialogEntities :
                /\ DialogOf(e)
                /\ sp = [NoSpamCheck EXCEPT !.pc = "chat", !.chat = e]

NextChecks ==
    \/ SpamByBot
    \/ SpamByFilter
    \/ ChatByBot
    \/ ChatByFilter

SpecChecks == InitChecks /\ [][NextChecks]_vars

(***************************************************************************)
(* SpecEvict: three events of one direct chat arrive after a backlog that  *)
(* filled processedMessages                                                *)
(***************************************************************************)
MaxEvictEvents == 3     \* number of events delivered in a run of SpecEvict
EvictHandlers == 1..MaxEvictEvents

\* The n-th event of the run: message n of the direct chat.
EvictEvents(n) ==
    {[Message(ChatDM, t) EXCEPT !.id = n] : t \in {PlainText, SpamText}}

InitEvict ==
    /\ env \in {e \in Envs : e.FILTER_MODE = "smart"}
    /\ client = "none"
    /\ isRunning = FALSE
    /\ registered = FALSE
    /\ me = NoEntity
    /\ today = 0
    /\ currentLogFile = getLogFileName(0)
    /\ files = [d \in Days |-> <<>>]
    /\ chatCache = {}
    /\ senderCache = {}
    /\ processedMessages = <<>>
    /\ oldKeys = 0
    /\ lastProcessTime = FALSE
    /\ messageCount = 0
    /\ filteredCount = 0
    /\ skippedCount = 0
    /\ h = [i \in EvictHandlers |-> Idle]
    /\ delivered = 0
    /\ failures = 0
    /\ exited = FALSE
    /\ torn = {}
    /\ clock = 0
    /\ zone = UTC
    /\ dg = NoDigest
    /\ rank = NoRanking
    /\ cls = NoClassify
    /\ ft = NoFetch
    /\ sp = NoSpamCheck

\* The next event of the run arrives.
DeliverNext(e) ==
    /\ e.id = delivered + 1
    /\ DeliverUpTo(e, MaxEvictEvents)

NextEvict ==
    \/ Initialize
    \/ StartLogging
    \/ Backlog
    \/ \E e \in EvictEvents(delivered + 1) : DeliverNext(e)
    \/ \E i \in EvictHandlers : RateLimitDone(i)
    \/ \E i \in EvictHandlers : ChatInfoCached(i)
    \/ \E i \in EvictHandlers, out \in {"ok", "empty", "fail"} : ApiCallDone(i, out)
    \/ \E i \in EvictHandlers : RetrySleepDone(i)
    \/ \E i \in EvictHandlers : SenderInfoCached(i)
    \/ \E i \in EvictHandlers : MyInfoKnown(i)
    \/ \E i \in EvictHandlers : EnsureLogDirDone(i)
    \/ \E i \in EvictHandlers : ReadFileDone(i)
    \/ \E i \in EvictHandlers : WriteFileDone(i)
    \/ \E i \in EvictHandlers : LogMessageReturn(i)

SpecEvict == InitEvict /\ [][NextEvict]_vars

(***************************************************************************)
(* SpecLog: the logger with a file system whose reads and writes can fail  *)
(***************************************************************************)
NextLog ==
    \/ Initialize
    \/ StartLogging
    \/ Tick
    \/ \E e \in Events : Deliver(e)
    \/ \E i \in Handlers : RateLimitDone(i)
    \/ \E i \in Handlers : ChatInfoCached(i)
    \/ \E i \in Handlers, out \in {"ok", "empty", "fail"} : ApiCallDone(i, out)
    \/ \E i \in Handlers : RetrySleepDone(i)
    \/ \E i \in Handlers : ChannelSenderDone(i)
    \/ \E i \in Handlers : SenderInfoCached(i)
    \/ \E i \in Handlers : MyInfoKnown(i)
    \/ \E i \in Handlers : EnsureLogDirDone(i)
    \/ \E i \in Handlers : ReadFileDone(i)
    \/ \E i \in Handlers : ReadFileFailed(i)
    \/ \E i \in Handlers : WriteFileDone(i)
    \/ \E i \in Handlers : WriteFileFailed(i)
    \/ \E i \in Handlers : LogMessageReturn(i)

SpecLog == Init /\ [][NextLog]_vars

(***************************************************************************)
(* Properties                                                              *)
(***************************************************************************)
InFlight(i) == h[i].pc \notin {"idle", "done"}
Started(i) == h[i].pc = "idle" /\ h'[i].pc # "idle"
Ended(i) == h[i].pc # "done" /\ h'[i].pc = "done"
Wrote(i) == h[i].pc = "writeFile" /\ h'[i].pc = "written"

\* The entries of all log files that carry the key.
EntriesWithKey(key) ==
    {<<d, k>> \in Days \X (1..MaxEvents) :
        k <= Len(files[d]) /\ <<files[d][k].chatId, files[d][k].messageId>> = key}

\* The event goes through every check of the handler.
PassesFilters(message) ==
    /\ message.text.len # 0
    /\ ~shouldSkipMessage(message)
    /\ filterStage(message, Me) = "pass"

\* C1: an event that passes every filter and is delivered twice with the
\* same (chatId, messageId) leaves exactly one LogEntry, also when the
\* second delivery arrives while the first is in flight.
C1_ExactlyOneLogEntry ==
    \A i, j \in Handlers :
        (/\ i < j
         /\ h[i].pc = "done" /\ h[j].pc = "done"
         /\ h[i].outcome # "skipped" /\ h[j].outcome # "skipped"
         /\ h[i].ev = h[j].ev
         /\ PassesFilters(h[i].ev))
        => Cardinality(EntriesWithKey(<<h[i].ev.chat.id, h[i].ev.id>>)) = 1

\* C2: an event whose key is in processedMessages is dropped with no effect:
\* no log entry, no counter, no lookup, no change of the caches.
C2_DuplicateDropped ==
    [][\A i \in Handlers :
        (/\ Started(i)
         /\ \E k \in 1..Len(processedMessages) :
                processedMessages[k] = <<h'[i].ev.chat.id, h'[i].ev.id>>)
        => /\ h'[i].pc = "done"
           /\ h'[i].retry = NoRetry
           /\ \A j \in Handlers \ {i} : h'[j] = h[j]
           /\ UNCHANGED <<fileVars, cacheVars, countVars, lastProcessTime>>]_vars

C2_Witness ==
    \E i \in Handlers : h[i].pc = "done" /\ h[i].outcome = "duplicate"

\* C3: an entry is written into the file named for the UTC date of the
\* moment it is written.
C3_WrittenToTodaysFile ==
    [][\A i \in Handlers : Wrote(i) => h[i].wfile = today]_vars

\* C4: the handler of an event that ends (accepted, filtered or skipped) on
\* a date other than the open file's switches currentLogFile to that date
\* and resets the three counters.
C4_RotatesWhateverTheOutcome ==
    [][\A i \in Handlers :
        (/\ Ended(i)
         /\ h'[i].outcome \in {"accepted", "filtered", "skipped"}
         /\ today # currentLogFile)
        => /\ currentLogFile' = today
           /\ messageCount' = 0 /\ filteredCount' = 0 /\ skippedCount' = 0]_vars

\* C5: logMessage is an append: when its write is done the file holds what
\* it held before, followed by the new entry, and no other file changed.
C5_LogMessageAppends ==
    [][\A i \in Handlers :
        Wrote(i) =>
            /\ files'[h[i].wfile] = Append(files[h[i].wfile], h[i].entry)
            /\ \A d \in Days \ {h[i].wfile} : files'[d] = files[d]]_vars

\* C6: the entries of a day's file are in the arrival order of their events
\* and the entry of every accepted event is in a log file.
C6_ArrivalOrderNoneLost ==
    /\ \A d \in Days : \A k, l \in 1..Len(files[d]) :
           k < l => files[d][k].arrival < files[d][l].arrival
    /\ \A i \in Handlers :
           (h[i].pc = "done" /\ h[i].outcome = "accepted")
           => \E d \in Days : \E k \in 1..Len(files[d]) : files[d][k] = h[i].entry

\* C7: a lookup that fails on its last attempt ends that event alone as
\* skipped: skippedCount grows by one, nothing is written, the other
\* activations and the registration of the handler are untouched.
C7_LookupFailureSkips ==
    [][\A i \in Handlers :
        (/\ h[i].pc \in {"chatCall", "senderCall", "meCall"}
         /\ h[i].retry.result = "pending"
         /\ h[i].retry.attempt = DefaultMaxRetries
         /\ h'[i] # h[i]
         /\ failures' = failures + 1)
        => /\ h'[i].pc = "done" /\ h'[i].outcome = "skipped"
           /\ h'[i].entry = NoEntry
           /\ skippedCount' = skippedCount + 1
           /\ UNCHANGED <<messageCount, filteredCount, fileVars, registered, isRunning>>
           /\ \A j \in Handlers \ {i} : h'[j] = h[j]]_vars

C7_Witness ==
    \E i \in Handlers :
        h[i].pc = "done" /\ h[i].outcome = "skipped" /\ h[i].retry.result = "thrown"

\* C8 as stated: an event without text increments skippedCount or
\* filteredCount by one.
C8_NoTextCounted ==
    [][\A i \in Handlers :
        (Started(i) /\ h'[i].ev.text.len = 0)
        => (skippedCount' = skippedCount + 1 \/ filteredCount' = filteredCount + 1)]_vars

\* C8 amended: an event without text is dropped at once: no counter
\* changes, nothing is written or looked up, and the other activations and
\* the registration of the handler are untouched.
C8_NoTextDropped ==
    [][\A i \in Handlers :
        (Started(i) /\ h'[i].ev.text.len = 0)
        => /\ h'[i].pc = "done"
           /\ h'[i].retry = NoRetry /\ h'[i].entry = NoEntry
           /\ UNCHANGED <<countVars, fileVars, cacheVars, lastProcessTime,
                          registered, isRunning>>
           /\ \A j \in Handlers \ {i} : h'[j] = h[j]]_vars

C8_Witness ==
    \E i \in Handlers : h[i].pc = "done" /\ h[i].outcome = "notext"

\* C9: retryApiCall with its defaults invokes the call at most 3 times,
\* returns at the first success, sleeps 1000 then 1500 between attempts and
\* never after the last, and throws the error of the last attempt.
ExpectedSleeps == <<1000, 1500>>

C9_RetryContract ==
    \A i \in Handlers :
        LET r == h[i].retry
            failed(n) == \A k \in 1..n : r.outs[k] = "fail"
        IN r.result # "none" =>
            /\ r.maxRetries = 3
            /\ r.calls <= r.maxRetries
            /\ Len(r.sleeps) <= r.maxRetries - 1
            /\ r.sleeps = SubSeq(ExpectedSleeps, 1, Len(r.sleeps))
            /\ CASE r.result = "pending" ->
                        Len(r.outs) = r.calls - 1 /\ failed(r.calls - 1)
                        /\ Len(r.sleeps) = r.calls - 1
                 [] r.result = "sleeping" ->
                        Len(r.outs) = r.calls /\ failed(r.calls)
                        /\ Len(r.sleeps) = r.calls
                 [] r.result = "returned" ->
                        Len(r.outs) = r.calls /\ failed(r.calls - 1)
                        /\ r.outs[r.calls] # "fail"
                        /\ Len(r.sleeps) = r.calls - 1
                 [] r.result = "thrown" ->
                        Len(r.outs) = r.calls /\ failed(r.calls)
                        /\ r.calls = r.maxRetries
                        /\ Len(r.sleeps) = r.maxRetries - 1
                        /\ r.err = r.maxRetries

C9_Witness ==
    \E i \in Handlers :
        h[i].retry.result = "returned" /\ h[i].retry.sleeps = <<1000, 1500>>

\* C10: processedMessages never holds more than 1001 keys.
C10_CacheSizeBounded == CacheSize <= HighWaterMark + 1

\* C11: when the process has exited on SIGINT no event was in flight (every
\* delivered event had finished) and no log file is left partially written.
C11_InFlightFinishesBeforeExit ==
    exited => /\ \A i \in Handlers : ~InFlight(i)
              /\ torn = {}

\* C12: an event reaches logMessage, and an entry is in a log file, only if
\* the event has text and was rejected by none of the checks: the early
\* channel check, the chat-level filter of the mode, the group gating of the
\* mode, the spam check and the forward rule.  In every filter mode.
C12_OnlyUnfilteredLogged ==
    /\ \A i \in Handlers :
          (\/ h[i].pc \in {"mkdir", "readFile", "writeFile", "written"}
           \/ h[i].pc = "done" /\ h[i].outcome = "accepted")
          => LET m == h[i].ev
             IN /\ m.text.len # 0
                /\ ~shouldSkipMessage(m)
                /\ ~shouldFilterChat(m.chat, senderOf(m))
                /\ ~groupGated(m, m.chat, Me)
                /\ ~isSpamMessage(m.text)
                /\ ~(isGroupChat(m.chat) /\ m.fwdFrom)
    /\ \A d \in DOMAIN files : \A k \in 1..Len(files[d]) :
          LET i == files[d][k].arrival
          IN /\ i \in Handlers
             /\ files[d][k] = h[i].entry
             /\ h[i].pc = "written" \/ (h[i].pc = "done" /\ h[i].outcome = "accepted")

C12_Witness ==
    \E i \in Handlers :
        /\ h[i].pc = "done" /\ h[i].outcome = "accepted"
        /\ env.FILTER_MODE = "super_strict"
        /\ isGroupChat(h[i].ev.chat)
        /\ \E d \in DOMAIN files : Len(files[d]) = 1

\* C13: no entry of a log file has an empty text or a text of white space
\* only.
C13_NoBlankTextLogged ==
    \A d \in DOMAIN files : \A k \in 1..Len(files[d]) :
        files[d][k].text.len # 0 /\ ~files[d][k].text.blank

\* C14: every entry of a log file is among the messages a collectWeeklyLogs
\* run of the same day returns, and is then in the bucket of generateAIDigest
\* that goes with its fields: directMessages for a dm not written by me,
\* groupMessages for a group, channelMessages for a channel, mentions for a
\* mention, myMessages for a message of mine.
C14_RoundTrip ==
    \A d \in DOMAIN files : \A k \in 1..Len(files[d]) :
        LET e == files[d][k]
            got == collectWeeklyLogs(today * 24, UTC)
            a == digestBuckets(got)
            in(b) == b \in DOMAIN a /\ \E j \in DOMAIN a[b] : a[b][j] = e
        IN /\ \E j \in DOMAIN got : got[j] = e
           /\ (e.chatType = "dm" /\ ~e.isFromMe) => in("directMessages")
           /\ e.chatType = "group" => in("groupMessages")
           /\ e.chatType = "channel" => in("channelMessages")
           /\ e.isMention => in("mentions")
           /\ e.isFromMe => in("myMessages")

\* C15: when collectWeeklyLogs returns, the files it read are those of the
\* date of the run and of the 6 dates before it, most recent first, and
\* allMessages is the concatenation, in that order, of the entries of those
\* of them that exist and can be parsed; no error was raised.
C15_SevenTrailingDates ==
    (dg.prog = "bot" /\ dg.pc # "collect") =>
        LET D == utcDate(clock)
            entries(d) == IF d \in torn THEN <<>> ELSE files[d]
        IN /\ dg.read = [i \in 1..WindowDays |-> D - (i - 1)]
           /\ dg.messages = entries(D) \o entries(D - 1) \o entries(D - 2)
                               \o entries(D - 3) \o entries(D - 4) \o entries(D - 5)
                               \o entries(D - 6)
           /\ dg.err = "none" \/ dg.pc = "done"

C17_TopTenStable ==
    rank.pc = "ranked" =>
        LET t == rank.topChats
            first(title) == CHOOSE k \in DOMAIN rank.seen : rank.seen[k] = title
        IN /\ Len(t) <= TopLimit
           /\ \A p, q \in DOMAIN t : p < q => t[p].count >= t[q].count
           /\ \A p, q \in DOMAIN t :
                 (p < q /\ t[p].count = t[q].count) => first(t[p].title) < first(t[q].title)

C19_FailureFallsBack ==
    (dg.pc \in {"save", "done"} /\ Len(dg.messages) > 0 /\ dg.digest.kind # "ai") =>
        /\ dg.digest.kind = "fallback"
        /\ dg.digest.stats = createFallbackReport(analyzeMessages(dg.messages)).stats
        /\ dg.saved \in {NoReport, dg.digest}

\* C20: for every combination of flags both getChatType answer by first
\* match: channel for broadcast without megagroup and gigagroup; else group
\* for megagroup or gigagroup, or for what is no channel and has a
\* participant count; else bot for bot; else dm.
C20_FirstMatch ==
    LET e == cls.entity
        channel == e.broadcast /\ ~e.megagroup /\ ~e.gigagroup
        firstMatch == IF channel THEN "channel"
                      ELSE IF \/ e.megagroup
                              \/ e.gigagroup
                              \/ (~channel /\ e.participantsCount # Undefined) THEN "group"
                      ELSE IF e.bot THEN "bot"
                      ELSE "dm"
    IN /\ cls.utils # "" => cls.utils = firstMatch
       /\ cls.fetcher # "" => cls.fetcher = firstMatch

\* C21: whatever the flags of the entity, ChatUtils.getChatType returns one
\* of the four types, and exactly one of the flags isDM, isGroup, isChannel
\* and isBot it returns is true: the one that goes with the type.
C21_ExactlyOneType ==
    cls.utils # "" =>
        LET r == cls.info
            flag == [dm |-> r.isDM, group |-> r.isGroup, channel |-> r.isChannel,
                     bot |-> r.isBot]
        IN /\ r.type \in {"dm", "group", "channel", "bot"}
           /\ r = getChatType(cls.entity)
           /\ \A t \in DOMAIN flag : flag[t] <=> (t = r.type)

\* C22: in smart mode shouldIncludeDialog answers by the first rule that
\* applies: include a dm that is no bot; exclude a channel when
\* BLOCK_ALL_CHANNELS; exclude a channel of more than 1000; exclude a channel
\* or group with a spam title; include a group of at most 500 (0 included);
\* include a channel of at most 1000 or of unknown size; else exclude.
C22_SmartDecision ==
    env.FILTER_MODE = "smart" =>
        \A k \in DOMAIN ft.decided :
            LET e == ft.dialogs[k].entity
                n == e.participantsCount
                t == getChatType(e).type
                rule == IF t = "dm" THEN TRUE
                        ELSE IF t = "channel" /\ env.BLOCK_ALL_CHANNELS THEN FALSE
                        ELSE IF t = "channel" /\ n # Undefined /\ n > 1000 THEN FALSE
                        ELSE IF t \in {"channel", "group"} /\ e.spamChat THEN FALSE
                        ELSE IF t = "group" /\ n # Undefined /\ n <= 500 THEN TRUE
                        ELSE IF t = "channel" /\ (n = Undefined \/ n <= 1000) THEN TRUE
                        ELSE FALSE
            IN ft.decided[k] = rule

\* C23: in dm_only mode no message of a group, of a channel or of a bot is
\* logged by the handler: every entry of a log file is of a chat that is
\* neither group nor channel, from a sender that is no bot.
C23_DmOnlyLogsOnlyDms ==
    env.FILTER_MODE = "dm_only" =>
        \A d \in DOMAIN files : \A k \in 1..Len(files[d]) :
            LET m == h[files[d][k].arrival].ev
            IN /\ files[d][k].chatType = "dm"
               /\ ~isGroupChat(m.chat) /\ ~m.chat.broadcast
               /\ ~senderOf(m).bot

\* C24: with BLOCK_ALL_CHANNELS no channel is included by
\* shouldIncludeDialog, and no message of a channel is collected, in any
\* filter mode.
C24_BlockAllChannels ==
    env.BLOCK_ALL_CHANNELS =>
        /\ \A k \in DOMAIN ft.decided :
              ft.dialogs[k].entity.broadcast => ~ft.decided[k]
        /\ \A j \in DOMAIN ft.allMessages :
              \A k \in DOMAIN ft.dialogs :
                  ft.dialogs[k].entity.id = ft.allMessages[j].chatId
                      => ~ft.dialogs[k].entity.broadcast

\* C25: in allowlist mode a chat is included iff its id is in
\* ALLOWED_CHAT_IDS, and every chat is included when the list is empty: by
\* shouldIncludeDialog of the fetcher and by shouldFilterChat of the handler.
C25_Allowlist ==
    env.FILTER_MODE = "allowlist" =>
        LET listed == env.ALLOWED_CHAT_IDS = {} \/ sp.chat.id \in env.ALLOWED_CHAT_IDS
        IN /\ sp.filterChat # "" => (sp.filterChat = "include" <=> listed)
           /\ sp.botChat # "" => (sp.botChat = "keep" <=> listed)

C25_Witness ==
    /\ env.FILTER_MODE = "allowlist"
    /\ env.ALLOWED_CHAT_IDS = {}
    /\ sp.chat.broadcast
    /\ sp.filterChat = "include" /\ sp.botChat = "keep"

\* C26: in super_strict mode no message of a group (basic group, supergroup
\* or gigagroup, of any size) that neither mentions the account nor is
\* written by it is collected.
C26_SuperStrictGroups ==
    env.FILTER_MODE = "super_strict" =>
        \A j \in DOMAIN ft.allMessages : \A k \in DOMAIN ft.dialogs :
            LET e == ft.dialogs[k].entity
                m == ft.allMessages[j]
                group == e.className = "Chat" \/ e.megagroup \/ e.gigagroup
            IN (e.id = m.chatId /\ group) => (m.isMention \/ m.isFromMe)

\* C27: in smart and exclude_keywords mode a message that the other checks
\* let through is dropped for lacking a mention iff its chat is a group of
\* more than 100 members; a message of a dm or of a broadcast channel is
\* never dropped for lacking a mention.
C27_GatingOnlyLargeGroups ==
    env.FILTER_MODE \in {"smart", "exclude_keywords"} =>
        \A i \in Handlers :
            LET m == h[i].ev
                c == m.chat
                group == ~c.broadcast /\ (c.peer = "PeerChat" \/ c.megagroup \/ c.gigagroup)
            IN (/\ h[i].pc = "done" /\ h[i].outcome \in {"accepted", "filtered"}
                /\ ~shouldSkipMessage(m)
                /\ ~shouldFilterChat(c, senderOf(m))
                /\ ~isSpamMessage(m.text)
                /\ ~(isGroupChat(c) /\ m.fwdFrom))
               => (h[i].outcome = "filtered"
                     <=> (/\ group
                          /\ c.participantsCount # Undefined
                          /\ c.participantsCount > 100
                          /\ ~checkMention(m.text, Me)))

\* C28: in no_channels mode a message of a dm or of a group, supergroups and
\* gigagroups included, that the message-level checks (spam, forward) let
\* through is logged, not filtered.
C28_NoChannelsKeepsGroups ==
    env.FILTER_MODE = "no_channels" =>
        \A i \in Handlers :
            LET m == h[i].ev
            IN (/\ h[i].pc = "done" /\ h[i].outcome \in {"accepted", "filtered"}
                /\ ~m.chat.broadcast
                /\ ~isSpamMessage(m.text)
                /\ ~(isGroupChat(m.chat) /\ m.fwdFrom))
               => h[i].outcome = "accepted"

\* C29: a dialog whose getMessages failed on all its attempts only loses its
\* own messages: at every point of the fetch allMessages holds, in the order
\* of the dialogs, the messages of every included dialog handled so far whose
\* fetch did not fail; a failed dialog has used all its attempts; and the
\* fetch returns only after the last dialog.
C29_FetchFailureIsolated ==
    LET n == Len(ft.dialogs)
        handled(k) == k < ft.k \/ (k = ft.k /\ ft.pc \in {"rate", "loop", "returned"})
        part(k) == IF handled(k) /\ ft.decided[k] /\ k \notin ft.warned
                   THEN processedOf(ft.dialogs[k].entity,
                                    fetcherGetChatType(ft.dialogs[k].entity),
                                    ft.dialogs[k].messages)
                   ELSE <<>>
        upTo[k \in 0..n] == IF k = 0 THEN <<>> ELSE upTo[k - 1] \o part(k)
    IN /\ ft.allMessages = upTo[n]
       /\ \A k \in ft.warned : handled(k) /\ ft.decided[k]
       /\ (ft.k \in ft.warned /\ ft.pc = "rate") =>
             ft.retry.result = "thrown" /\ ft.retry.calls = DefaultMaxRetries
       /\ ft.pc = "returned" => ft.k = n /\ Len(ft.decided) = n

C29_Witness ==
    /\ ft.pc = "returned"
    /\ Len(ft.dialogs) = 3
    /\ ft.warned = {2}
    /\ Len(ft.allMessages) = 2
    /\ ft.allMessages[1].chatId = UserDialog.entity.id
    /\ ft.allMessages[2].chatId = ChannelDialog.entity.id

\* C30: on a text without spam keyword isSpamMessage, of bot.js and of
\* message-filter.js, says spam iff the text has more than 5 emoji or more
\* than half of its characters are capital letters and it is longer than 20.
C30_SpamBoundaries ==
    LET t == sp.text
        rule == t.emoji > 5 \/ (2 * t.caps > t.len /\ t.len > 20)
    IN /\ (sp.bot # "" /\ ~t.kw) => (sp.bot = "spam" <=> rule)
       /\ (sp.filter # "" /\ ~t.kwFilter) => (sp.filter = "spam" <=> rule)

\* C31: a key is in processedMessages only when the LogEntry of its event is
\* in a log file.
C31_KeyOnlyAfterPersisted ==
    \A k \in 1..Len(processedMessages) :
        EntriesWithKey(processedMessages[k]) # {}

\* C32: when the handler of a new event with text finds more than 1000 keys
\* in processedMessages, the keys it deletes are older than every key it keeps, and at most 501 keys
\* are left.
C32_EvictsOldestHalf ==
    [][(/\ delivered' = delivered + 1
        /\ h'[delivered'].pc # "done"       \* not dropped before the eviction
        /\ NeedsEviction)
       => /\ oldKeys' <= oldKeys
          /\ \E n \in 0..Len(processedMessages) :
                /\ processedMessages' = SubSeq(processedMessages, n + 1, Len(processedMessages))
                /\ n > 0 => oldKeys' = 0
          /\ CacheSize' < CacheSize
          /\ CacheSize' <= HighWaterMark \div 2 + 1]_vars

\* C33: the handler drops an event that got through every other check iff
\* the message is a forward in a group chat (a basic group or a supergroup,
\* not a broadcast channel, not a direct chat) whose author is not the
\* account itself.
C33_ForwardRule ==
    \A i \in Handlers :
        LET m == h[i].ev
            inGroup == m.chat.peer # "PeerUser" /\ ~m.chat.broadcast
            byOther == m.sender.id # Me.id
        IN (/\ h[i].pc = "done"
            /\ h[i].outcome \in {"filtered", "accepted"}
            /\ ~shouldSkipMessage(m)
            /\ ~shouldFilterChat(m.chat, senderOf(m))
            /\ ~groupGated(m, m.chat, Me)
            /\ ~isSpamMessage(m.text))
           => (h[i].outcome = "filtered" <=> (m.fwdFrom /\ inGroup /\ byOther))

\* C34: a LogEntry has chatType channel only if its chat is a broadcast
\* channel, and the LogEntry of an event from a group (basic group or
\* supergroup) has chatType group, the id of the real sender and isFromMe set
\* iff that sender is the account itself.
C34_SyntheticSenderOnlyForBroadcast ==
    \A d \in DOMAIN files : \A k \in 1..Len(files[d]) :
        LET entry == files[d][k]
            m == h[entry.arrival].ev
            inGroup == m.chat.peer # "PeerUser" /\ ~m.chat.broadcast
        IN /\ entry.chatType = "channel" => m.chat.broadcast
           /\ inGroup => /\ entry.chatType = "group"
                          /\ entry.senderId = m.sender.id
                          /\ entry.isFromMe = (m.sender.id = Me.id)

\* C35: the chat and sender caches only grow, and only by the id of a lookup
\* that has just succeeded; an activation whose chat (sender) id is in the
\* cache gets the cached entity with no call to the platform, one whose id
\* is not calls the platform; a lookup that fails leaves the caches as they
\* were.
C35_LookupCaches ==
    [][/\ chatCache \subseteq chatCache'
       /\ senderCache \subseteq senderCache'
       /\ chatCache' # chatCache =>
             \E i \in Handlers :
                /\ h[i].pc = "chatCall" /\ h'[i].pc \notin {"chatCall", "done"}
                /\ chatCache' = chatCache \cup {h[i].ev.chat.id}
       /\ senderCache' # senderCache =>
             \E i \in Handlers :
                /\ h[i].pc \in {"senderCall", "channelSender"}
                /\ h'[i].pc \notin {"senderCall", "done"}
                /\ senderCache' = senderCache \cup {senderKey(h[i].ev)}
       /\ \A i \in Handlers :
             /\ (h[i].pc \in {"idle", "rate"} /\ h'[i].pc \in {"chatTick", "chatCall"})
                => (h'[i].pc = "chatTick" <=> h'[i].ev.chat.id \in chatCache)
             /\ (h[i].pc \in {"chatTick", "chatCall"}
                   /\ h'[i].pc \in {"senderTick", "channelSender", "senderCall"})
                => (h'[i].pc = "senderTick" <=> senderKey(h[i].ev) \in senderCache)
             /\ (h[i].pc \in {"chatCall", "senderCall"} /\ Ended(i))
                => UNCHANGED <<chatCache, senderCache>>]_vars

\* A later event of a chat whose lookup succeeded is served from the cache.
C35_Witness ==
    \E i, j \in Handlers :
        /\ i < j
        /\ h[i].ev.chat.id = h[j].ev.chat.id
        /\ h[i].ev.chat.id \in chatCache
        /\ h[i].pc = "done" /\ h[i].outcome = "skipped"
        /\ h[j].pc = "chatTick"

\* C36: a logMessage call rewrites the file it read: the file name of its
\* writeFile is the file name of its readFile.
C36_ReadsAndRewritesSameFile ==
    \A i \in Handlers :
        h[i].pc \in {"writeFile", "written"} => h[i].wfile = h[i].rfile

\* C37: the handler counts an event as accepted only when the writeFile of
\* its logMessage went through.
C37_AcceptedOnlyIfWritten ==
    [][\A i \in Handlers :
        (Ended(i) /\ h'[i].outcome = "accepted") => h[i].pc = "written"]_vars

\* C38: the handler of an event with text that is not a duplicate changes
\* the counters once, when it ends: it adds one to exactly one of
\* messageCount, filteredCount and skippedCount and leaves the other two (or
\* it counts the event as accepted and, rotating the log file in the same
\* step, sets the three to 0); no other step of a handler changes a counter.
C38_ExactlyOneCounter ==
    [][/\ \A i \in Handlers :
            (Ended(i) /\ h'[i].ev.text.len # 0 /\ h'[i].outcome # "duplicate")
            => \/ /\ messageCount' = messageCount + 1
                  /\ UNCHANGED <<filteredCount, skippedCount>>
               \/ /\ filteredCount' = filteredCount + 1
                  /\ UNCHANGED <<messageCount, skippedCount>>
               \/ /\ skippedCount' = skippedCount + 1
                  /\ UNCHANGED <<messageCount, filteredCount>>
               \/ /\ h'[i].outcome = "accepted"
                  /\ currentLogFile' # currentLogFile
                  /\ messageCount' = 0 /\ filteredCount' = 0 /\ skippedCount' = 0
       /\ (registered /\ countVars' # countVars)
            => \E i \in Handlers :
                  Ended(i) /\ h'[i].ev.text.len # 0 /\ h'[i].outcome # "duplicate"]_vars

\* An event whose write failed inside logMessage is counted as accepted and
\* not as skipped.
C38_Witness ==
    /\ \E i \in Handlers : h[i].pc = "done" /\ h[i].outcome = "accepted"
    /\ \A d \in Days : files[d] = <<>>
    /\ messageCount = 1 /\ filteredCount = 0 /\ skippedCount = 0

\* C39: the 'Total Messages Analyzed' of a fallback report is the number of
\* messages generateReport was given.
C39_TotalIsInputLength ==
    dg.digest.kind = "fallback" => dg.digest.stats.total = Len(dg.messages)

\* C40: topChats has min(10, totalChats) rows, and every row stands for one
\* chat: its title is the title of the entries of one chatId only and its
\* count is the number of entries of that chat.
C40_OneRowPerChat ==
    (dg.prog = "main" /\ dg.pc \in {"post", "save", "done"} /\ dg.messages # <<>>) =>
        LET msgs == dg.messages
            top == dg.analysis.topChats
            chatIds == {msgs[k].chatId : k \in DOMAIN msgs}
        IN /\ Len(top) = Min(TopLimit, dg.analysis.stats.totalChats)
           /\ \A r \in DOMAIN top : \E c \in chatIds :
                 /\ \A k \in DOMAIN msgs :
                       msgs[k].chatTitle = top[r].title <=> msgs[k].chatId = c
                 /\ top[r].count = Cardinality({k \in DOMAIN msgs : msgs[k].chatId = c})

====
